---- MODULE Spec2Model ----
(***************************************************************************)
(* PageBuddy (NOVA): the text helpers of components_gemini.py and the      *)
(* Streamlit session of app.py.                                            *)
(*                                                                         *)
(* A Python string is a sequence of one-character strings.  None and a     *)
(* raised exception are the one-element sequences NONE and RAISE, whose    *)
(* element is no character, so they equal no string.                       *)
(***************************************************************************)
EXTENDS Integers, Sequences, FiniteSets, TLC

\* ------------------------------------------------------------------ bounds
\* Number of sentence forms an input text is built from (before the tail).
MaxForms == 2
\* Largest n_sentences handed to extractive_summary directly.
MaxN == 2
\* Largest flashcard count requested besides the default.
MaxCount == 2
\* Largest term weight (a stand-in for the idf factor) the vectorizer assigns.
MaxIdf == 2
\* Number of chat turns (user message and reply) a session may hold.
MaxTurns == 2
\* Largest number of bullets, and of actions, handed to export_to_pptx.
MaxBullets == 2
\* Longest text whose spoken duration is estimated.
MaxChars == 40

\* --------------------------------------------------------- program constants
\* smart_summarize: extractive_summary(text, n_sentences=6)
SUMMARY_SENTENCES == 6
\* smart_summarize: len(out.strip()) > 10
MIN_SUMMARY_LEN == 10
\* generate_action_items: len(out.strip()) > 5
MIN_ACTIONS_LEN == 5
\* generate_action_items: sents[:4]
ACTION_SENTENCES == 4
\* extractive_summary: text[:800]
TRUNCATE_CHARS == 800
\* generate_flashcards: count=8
FLASHCARD_COUNT == 8

\* ------------------------------------------------------------------ strings
NONE == <<"<None>">>
RAISE == <<"<raise>">>
SP == " "
NL == "\n"

IsSpace(c) == c \in {SP, NL}

\* if out: (None and the empty string are falsy)
Truthy(s) == s # NONE /\ s # <<>>

RECURSIVE lstrip(_)
lstrip(s) == IF s # <<>> /\ IsSpace(Head(s)) THEN lstrip(Tail(s)) ELSE s

RECURSIVE rstrip(_)
rstrip(s) ==
    IF s # <<>> /\ IsSpace(s[Len(s)]) THEN rstrip(SubSeq(s, 1, Len(s) - 1)) ELSE s

\* Fault: nothing is stripped.
strip_nothing(s) == s

\* str.strip()
strip(s) == rstrip(lstrip(s))

\* s[:k]
Prefix(s, k) == SubSeq(s, 1, IF k < Len(s) THEN k ELSE Len(s))

\* sep.join(parts)
RECURSIVE Join(_, _)
Join(sep, parts) ==
    IF parts = <<>> THEN <<>>
    ELSE IF Len(parts) = 1 THEN parts[1]
    ELSE parts[1] \o sep \o Join(sep, Tail(parts))

\* "".join(parts)
\* needle in hay
RECURSIVE Contains(_, _)
Contains(hay, needle) ==
    IF Len(needle) > Len(hay) THEN FALSE
    ELSE IF SubSeq(hay, 1, Len(needle)) = needle THEN TRUE
    ELSE Contains(Tail(hay), needle)

\* s.startswith(p)
StartsWith(s, p) == Len(s) >= Len(p) /\ SubSeq(s, 1, Len(p)) = p

\* ------------------------------------------------------------ sent_tokenize

\* nltk's sentence tokenizer: a sentence ends at a terminator that is followed
\* by whitespace or by the end of the text; the whitespace between sentences
\* is dropped, and a trailing run without a terminator is a sentence too.
RECURSIVE SentSplit(_, _, _)
SentSplit(s, cur, acc) ==
    IF s = <<>>
    THEN IF strip(cur) = <<>> THEN acc ELSE Append(acc, strip(cur))
    ELSE LET c == Head(s)
             r == Tail(s)
         IN  IF c \in {".", "!", "?"} /\ (r = <<>> \/ IsSpace(Head(r)))
             THEN SentSplit(r, <<>>, Append(acc, strip(Append(cur, c))))
             ELSE SentSplit(r, Append(cur, c), acc)

sent_tokenize(t) == SentSplit(t, <<>>, <<>>)

\* --------------------------------------------------------- TfidfVectorizer
IsWordChar(c) == ~IsSpace(c) /\ c \notin {".", "!", "?"} /\ c \notin {",", ":", "-", "[", "]"}

\* stop_words="english", as far as the input alphabet reaches
STOP_WORDS == {<<"i", "t">>}

\* token_pattern (?u)\b\w\w+\b: runs of two or more word characters
KeepWord(cur, acc) ==
    IF Len(cur) >= 2 /\ cur \notin STOP_WORDS THEN Append(acc, cur) ELSE acc

RECURSIVE WordSplit(_, _, _)
WordSplit(s, cur, acc) ==
    IF s = <<>> THEN KeepWord(cur, acc)
    ELSE IF IsWordChar(Head(s)) THEN WordSplit(Tail(s), Append(cur, Head(s)), acc)
    ELSE WordSplit(Tail(s), <<>>, KeepWord(cur, acc))

\* the terms of one document (sentence), stop words removed
Terms(sent) == WordSplit(sent, <<>>, <<>>)

Range(f) == {f[i] : i \in DOMAIN f}

\* vect.vocabulary_ after fit
Vocabulary(sents) == UNION {Range(Terms(sents[i])) : i \in DOMAIN sents}

TermUniverse == {<<"o", "x">>, <<"a", "x">>}

\* the idf factor of each term: some positive weight per term
IdfChoices == [TermUniverse -> 1..MaxIdf]

RECURSIVE SumFn(_, _)
SumFn(f, S) ==
    IF S = {} THEN 0
    ELSE LET t == CHOOSE u \in S : TRUE IN f[t] + SumFn(f, S \ {t})

\* One row of X = fit_transform(sents), summed.  The row is tf * idf, l2
\* normalised, so its sum is num / sqrt(den), with num the sum of the raw
\* weights of the row and den the sum of their squares.
RowSum(sent, w) ==
    LET ts == Terms(sent)
        x == [t \in Range(ts) |-> Cardinality({k \in DOMAIN ts : ts[k] = t}) * w[t]]
    IN  [num |-> SumFn(x, DOMAIN x),
         den |-> SumFn([t \in DOMAIN x |-> x[t] * x[t]], DOMAIN x)]

\* scores = np.asarray(X.sum(axis=1)).ravel()
RECURSIVE Scores(_, _)
Scores(sents, w) ==
    IF sents = <<>> THEN <<>>
    ELSE <<RowSum(Head(sents), w)>> \o Scores(Tail(sents), w)

\* a <= b for two row sums (compared through their squares)
ScoreLE(a, b) ==
    IF a.num = 0 THEN TRUE
    ELSE IF b.num = 0 THEN FALSE
    ELSE a.num * a.num * b.den <= b.num * b.num * a.den

\* Fault: the ranking without the reversal [::-1], which takes the n entries
\* that come first in ascending score order.
RECURSIVE RankedBottom(_, _, _)
RankedBottom(sc, rem, n) ==
    IF n <= 0 \/ rem = {} THEN {{}}
    ELSE LET M == {k \in rem : \A j \in rem : ScoreLE(sc[k], sc[j])}
         IN  IF Cardinality(M) <= n
             THEN {M \cup T : T \in RankedBottom(sc, rem \ M, n - Cardinality(M))}
             ELSE {T \in SUBSET M : Cardinality(T) = n}

\* ranked = np.argsort(scores)[::-1]; ranked[:n]: the n entries that come
\* first in descending score order.  Equal scores may come in either order:
\* the largest remaining scores are taken together while they fit, and any
\* n of them when they do not.
RECURSIVE RankedTop(_, _, _)
RankedTop(sc, rem, n) ==
    IF n <= 0 \/ rem = {} THEN {{}}
    ELSE LET M == {k \in rem : \A j \in rem : ScoreLE(sc[j], sc[k])}
         IN  IF Cardinality(M) <= n
             THEN {M \cup T : T \in RankedTop(sc, rem \ M, n - Cardinality(M))}
             ELSE {T \in SUBSET M : Cardinality(T) = n}

\* np.sort(idx): the indices in increasing order
RECURSIVE SortedIdx(_)
SortedIdx(T) ==
    IF T = {} THEN <<>>
    ELSE LET m == CHOOSE i \in T : \A j \in T : i <= j
         IN  <<m>> \o SortedIdx(T \ {m})

\* [sents[i] for i in top_idx]
RECURSIVE Pick(_, _)
Pick(sents, idx) ==
    IF idx = <<>> THEN <<>> ELSE <<sents[Head(idx)]>> \o Pick(sents, Tail(idx))

VARIABLES
    text,             \* the input text of the function calls
    SCIPY_AVAILABLE,  \* module flag: sklearn and numpy were imported
    GEN_CLIENT,       \* module flag: "genai", "vertexai" or "none"
    call,             \* the last function call: its arguments and result
    session_state,    \* st.session_state: the keys set and their values
    settings,         \* the sidebar widgets: lang, memory_mode, enable_tts
    run               \* what the last script run did and rendered

vars == <<text, SCIPY_AVAILABLE, GEN_CLIENT, call, session_state, settings, run>>

\* ------------------------------------------------------- extractive_summary
\* the ranking inputs of a call that ranks nothing
NoTop == [w |-> [t \in TermUniverse |-> 1], idx |-> {}]

\* What the vectorizer and np.argsort leave open for a call that reaches the
\* scoring: the term weights w and the positions idx that come first.
RankChoices(t, n_sentences) ==
    LET sents == sent_tokenize(t)
    IN  IF Len(sents) > n_sentences /\ SCIPY_AVAILABLE /\ Vocabulary(sents) # {}
        THEN UNION {[w : {w}, idx : RankedTop(Scores(sents, w), DOMAIN sents, n_sentences)] :
                    w \in IdfChoices}
        ELSE {NoTop}

\* Fault: the sentences of a short text joined without a separator.
extractive_summary_unseparated(t, n_sentences, top) ==
    LET sents == sent_tokenize(t)
    IN  IF Len(sents) <= n_sentences THEN Join(<<>>, sents)
        ELSE IF SCIPY_AVAILABLE
        THEN IF Vocabulary(sents) = {}
             THEN Prefix(t, TRUNCATE_CHARS)
                  \o (IF Len(t) > TRUNCATE_CHARS THEN <<".", ".", ".">> ELSE <<>>)
             ELSE Join(<<SP>>, Pick(sents, SortedIdx(top.idx)))
        ELSE Join(<<SP>>, Prefix(sents, n_sentences))

extractive_summary(t, n_sentences, top) ==
    LET sents == sent_tokenize(t)
    IN  IF Len(sents) <= n_sentences THEN Join(<<NL>>, sents)
        ELSE IF SCIPY_AVAILABLE
        THEN IF Vocabulary(sents) = {}
             \* fit_transform raises ValueError (empty vocabulary): except branch
             THEN Prefix(t, TRUNCATE_CHARS)
                  \o (IF Len(t) > TRUNCATE_CHARS THEN <<".", ".", ".">> ELSE <<>>)
             ELSE Join(<<SP>>, Pick(sents, SortedIdx(top.idx)))
        ELSE Join(<<SP>>, Prefix(sents, n_sentences))

\* ------------------------------------------------------ the remote service
\* What the hosted model may answer to a prompt, by name:
\*   empty        ""
\*   positive     " Positive\n"
\*   negative     "negative!!"
\*   summary      "ox. ax ox. it."
\*   two_lines    "neutral\nnegative"
\*   blank        " \n"
\*   todos        "- ox\n\n-\nax"
\*   json         "x [{"q":"ox","a":"it"}, {"q":"ax","a":"1"}]"
\*   json_other   "[1, "ox"]"
\*   qa_lines     "Q: ox\nA: it\nq ax\na- 1"
\*   qa_bracket   "[1\nQ) ox\nA: it"
R ==
    [empty |->
         <<>>,
     positive |->
         <<" ", "P", "o", "s", "i", "t", "i", "v", "e", "\n">>,
     negative |->
         <<"n", "e", "g", "a", "t", "i", "v", "e", "!", "!">>,
     summary |->
         <<"o", "x", ".", " ", "a", "x", " ", "o", "x", ".", " ", "i", "t", ".">>,
     two_lines |->
         <<"n", "e", "u", "t", "r", "a", "l", "\n", "n", "e", "g", "a", "t", "i", "v",
         "e">>,
     blank |->
         <<" ", "\n">>,
     todos |->
         <<"-", " ", "o", "x", "\n", "\n", "-", "\n", "a", "x">>,
     json |->
         <<"x", " ", "[", "{", "\"", "q", "\"", ":", "\"", "o", "x", "\"", ",", "\"",
         "a", "\"", ":", "\"", "i", "t", "\"", "}", ",", " ", "{", "\"", "q", "\"",
         ":", "\"", "a", "x", "\"", ",", "\"", "a", "\"", ":", "\"", "1", "\"", "}",
         "]">>,
     json_other |->
         <<"[", "1", ",", " ", "\"", "o", "x", "\"", "]">>,
     qa_lines |->
         <<"Q", ":", " ", "o", "x", "\n", "A", ":", " ", "i", "t", "\n", "q", " ", "a",
         "x", "\n", "a", "-", " ", "1">>,
     qa_bracket |->
         <<"[", "1", "\n", "Q", ")", " ", "o", "x", "\n", "A", ":", " ", "i", "t">>]

Responses == {R[name] : name \in DOMAIN R}

\* One remote call: it raises, or answers an object whose .text is val
\* ("text"), or a dict whose first candidate's content is val ("dict").
RemoteOutcomes ==
    {[kind |-> "raise", val |-> <<>>]} \cup [kind : {"text", "dict"}, val : Responses]

\* str(response) of a response object without text
RESPONSE_REPR ==
    <<"<", "G", "e", "n", "e", "r", "a", "t", "e", "C", "o", "n", "t", "e", "n", "t",
      "R", "e", "s", "p", "o", "n", "s", "e", ">">>

\* _gemini_generate_text: primary is what generate_content (genai) or predict
\* (vertexai) does, legacy is what genai.generate_text does when it is reached.
_gemini_generate_text(client, primary, legacy) ==
    IF client = "genai"
    THEN IF primary.kind = "raise"
         THEN IF legacy.kind = "raise" THEN NONE ELSE strip(legacy.val)
         ELSE IF primary.kind = "text" /\ primary.val # <<>> THEN strip(primary.val)
         ELSE IF primary.kind = "dict" THEN strip(primary.val)
         ELSE RESPONSE_REPR
    ELSE IF client = "vertexai"
    THEN IF primary.kind = "raise" THEN NONE
         ELSE IF primary.kind = "text" /\ primary.val # <<>> THEN primary.val
         ELSE RESPONSE_REPR
    ELSE NONE

\* Fault: the vertexai path repeats predict when it raised.
GenerateCalls_vertex_retry(client, primary) ==
    IF client = "none" THEN <<>>
    ELSE IF client = "genai"
    THEN <<[service |-> client, api |-> "generate_content"]>>
         \o (IF primary.kind = "raise"
             THEN <<[service |-> client, api |-> "generate_text"]>> ELSE <<>>)
    ELSE <<[service |-> client, api |-> "predict"]>>
         \o (IF primary.kind = "raise"
             THEN <<[service |-> client, api |-> "predict"]>> ELSE <<>>)

\* the requests _gemini_generate_text sends, in order: generate_content and,
\* when it raised, generate_text (genai); predict (vertexai)
GenerateCalls(client, primary) ==
    IF client = "genai"
    THEN <<[service |-> client, api |-> "generate_content"]>>
         \o (IF primary.kind = "raise"
             THEN <<[service |-> client, api |-> "generate_text"]>> ELSE <<>>)
    ELSE IF client = "vertexai" THEN <<[service |-> client, api |-> "predict"]>>
    ELSE <<>>

\* Every value a call of _gemini_generate_text can produce under a client.
GenaiReturns ==
    {_gemini_generate_text("genai", p, l) : p \in RemoteOutcomes, l \in RemoteOutcomes}
VertexReturns ==
    {_gemini_generate_text("vertexai", p, l) : p \in RemoteOutcomes, l \in RemoteOutcomes}
GenReturns(client) ==
    IF client = "genai" THEN GenaiReturns
    ELSE IF client = "vertexai" THEN VertexReturns
    ELSE {NONE}

\* What a caller of the generation function can meet: a returned value, or an
\* exception when the function is replaced by a stub that raises.
GenOutcomes(client) == GenReturns(client) \cup {RAISE}

\* components.openai_summarize: ChatCompletion.create and, when it raised,
\* Completion.create; None without a key, "OpenAI Error: ..." when both raise
openai_summarize(key, chat, completion) ==
    IF ~key THEN NONE
    ELSE IF chat.kind # "raise" THEN strip(chat.val)
    ELSE IF completion.kind # "raise" THEN strip(completion.val)
    ELSE <<"O", "p", "e", "n", "A", "I", " ", "E", "r", "r", "o", "r", ":", " ", "/", " ">>

\* the requests openai_summarize sends, in order
OpenaiCalls(key, chat) ==
    IF ~key THEN <<>>
    ELSE <<[service |-> "openai", api |-> "ChatCompletion.create"]>>
         \o (IF chat.kind = "raise"
             THEN <<[service |-> "openai", api |-> "Completion.create"]>> ELSE <<>>)

\* ------------------------------------------------ summarization and actions
\* Fault: a response of exactly MIN_SUMMARY_LEN characters is accepted.
smart_summarize_at_least(t, out, top) ==
    IF out # RAISE /\ Truthy(out) /\ Len(strip(out)) >= MIN_SUMMARY_LEN
    THEN strip(out)
    ELSE extractive_summary(t, SUMMARY_SENTENCES, top)

smart_summarize(t, out, top) ==
    IF out # RAISE /\ Truthy(out) /\ Len(strip(out)) > MIN_SUMMARY_LEN
    THEN strip(out)
    ELSE extractive_summary(t, SUMMARY_SENTENCES, top)

\* Fault: no local fallback, the empty string when the call fails.
generate_action_items_no_fallback(t, out) ==
    IF out # RAISE /\ Truthy(out) /\ Len(strip(out)) > MIN_ACTIONS_LEN
    THEN strip(out)
    ELSE <<>>

generate_action_items(t, out) ==
    IF out # RAISE /\ Truthy(out) /\ Len(strip(out)) > MIN_ACTIONS_LEN
    THEN strip(out)
    ELSE LET sents == Prefix(sent_tokenize(t), ACTION_SENTENCES)
         IN  Join(<<NL>>, [k \in DOMAIN sents |-> <<"-", SP>> \o strip(sents[k])])

\* ------------------------------------------------------ sentiment and mood
\* str.splitlines()
RECURSIVE SplitLines(_, _, _)
SplitLines(s, cur, acc) ==
    IF s = <<>> THEN IF cur = <<>> THEN acc ELSE Append(acc, cur)
    ELSE IF Head(s) = NL THEN SplitLines(Tail(s), <<>>, Append(acc, cur))
    ELSE SplitLines(Tail(s), Append(cur, Head(s)), acc)

splitlines(s) == SplitLines(s, <<>>, <<>>)

\* str.lower(), over the alphabet of the responses
LowerChar(c) ==
    IF c = "P" THEN "p" ELSE IF c = "Q" THEN "q" ELSE IF c = "A" THEN "a" ELSE c

lower(s) == [k \in DOMAIN s |-> LowerChar(s[k])]

\* Fault: the sentiment word is looked for in the whole answer.
sentiment_of_text_any_line(out) ==
    IF out # RAISE /\ Truthy(out)
    THEN IF Contains(lower(out), <<"p", "o", "s", "i", "t", "i", "v", "e">>) THEN "positive"
         ELSE IF Contains(lower(out), <<"n", "e", "g", "a", "t", "i", "v", "e">>) THEN "negative"
         ELSE "neutral"
    ELSE "neutral"

\* sentiment_of_text: out is the answer to the one-word sentiment prompt
sentiment_of_text(out) ==
    IF out # RAISE /\ Truthy(out)
    THEN LET lines == splitlines(strip(out))
         IN  IF lines = <<>> THEN "neutral"   \* IndexError, caught
             ELSE IF Contains(lower(lines[1]), <<"p", "o", "s", "i", "t", "i", "v", "e">>) THEN "positive"
             ELSE IF Contains(lower(lines[1]), <<"n", "e", "g", "a", "t", "i", "v", "e">>) THEN "negative"
             ELSE "neutral"
    ELSE "neutral"

\* Fault: the sentiment word is returned unmapped.
analyze_emotion_unmapped(out) == sentiment_of_text(out)

\* mapping.get(s, "listening")
analyze_emotion(out) ==
    LET s == sentiment_of_text(out)
    IN  IF s = "positive" THEN "happy"
        ELSE IF s = "negative" THEN "concerned"
        ELSE "listening"

\* ------------------------------------------------------------ Python values
\* The values json.loads yields and generate_flashcards returns, tagged by
\* their type: a str, an int (its digits), a list, a dict (keys to values).
Str(s) == [t |-> "str", v |-> s]
Num(s) == [t |-> "int", v |-> s]
List(xs) == [t |-> "list", v |-> xs]
Dict(f) == [t |-> "dict", v |-> f]

K_Q == <<"q">>
K_A == <<"a">>

\* {"q": q, "a": a}
Card(q, a) == Dict((K_Q :> Str(q)) @@ (K_A :> Str(a)))

\* --------------------------------------------------------------- json.loads
IsDigit(c) == c \in {"0", "1", "2", "3", "4", "5", "6", "7", "8", "9"}

RECURSIVE SkipWs(_, _)
SkipWs(s, i) == IF i <= Len(s) /\ IsSpace(s[i]) THEN SkipWs(s, i + 1) ELSE i

\* the index of the next double quote at or after i, 0 if there is none
RECURSIVE ScanQuote(_, _)
ScanQuote(s, i) ==
    IF i > Len(s) THEN 0 ELSE IF s[i] = "\"" THEN i ELSE ScanQuote(s, i + 1)

RECURSIVE ScanDigits(_, _)
ScanDigits(s, i) == IF i <= Len(s) /\ IsDigit(s[i]) THEN ScanDigits(s, i + 1) ELSE i

JsonFail == [ok |-> FALSE, v |-> NONE, i |-> 0]
JsonOk(v, i) == [ok |-> TRUE, v |-> v, i |-> i]

\* d[key] = v
Put(d, key, v) == (key :> v) @@ d

\* The JSON decoder over strings, integers, arrays and objects: the value
\* that starts at index i and the index after it.
RECURSIVE ParseValue(_, _)
RECURSIVE ParseElems(_, _, _)
RECURSIVE ParseMembers(_, _, _)
ParseValue(s, i0) ==
    LET i == SkipWs(s, i0)
    IN  IF i > Len(s) THEN JsonFail
        ELSE IF s[i] = "\""
        THEN LET j == ScanQuote(s, i + 1)
             IN  IF j = 0 THEN JsonFail ELSE JsonOk(Str(SubSeq(s, i + 1, j - 1)), j + 1)
        ELSE IF IsDigit(s[i])
        THEN LET j == ScanDigits(s, i) IN JsonOk(Num(SubSeq(s, i, j - 1)), j)
        ELSE IF s[i] = "["
        THEN LET k == SkipWs(s, i + 1)
             IN  IF k <= Len(s) /\ s[k] = "]" THEN JsonOk(List(<<>>), k + 1)
                 ELSE ParseElems(s, i + 1, <<>>)
        ELSE IF s[i] = "{"
        THEN LET k == SkipWs(s, i + 1)
             IN  IF k <= Len(s) /\ s[k] = "}" THEN JsonOk(Dict(<<>>), k + 1)
                 ELSE ParseMembers(s, i + 1, <<>>)
        ELSE JsonFail

ParseElems(s, i, acc) ==
    LET r == ParseValue(s, i)
        k == SkipWs(s, r.i)
    IN  IF ~r.ok \/ k > Len(s) THEN JsonFail
        ELSE IF s[k] = "," THEN ParseElems(s, k + 1, Append(acc, r.v))
        ELSE IF s[k] = "]" THEN JsonOk(List(Append(acc, r.v)), k + 1)
        ELSE JsonFail

ParseMembers(s, i, acc) ==
    LET q1 == SkipWs(s, i)
        q2 == IF q1 <= Len(s) /\ s[q1] = "\"" THEN ScanQuote(s, q1 + 1) ELSE 0
        c == SkipWs(s, q2 + 1)
        r == ParseValue(s, c + 1)
        k == SkipWs(s, r.i)
    IN  IF q2 = 0 \/ c > Len(s) THEN JsonFail
        ELSE IF s[c] # ":" THEN JsonFail
        ELSE IF ~r.ok \/ k > Len(s) THEN JsonFail
        ELSE IF s[k] = ","
        THEN ParseMembers(s, k + 1, Put(acc, SubSeq(s, q1 + 1, q2 - 1), r.v))
        ELSE IF s[k] = "}"
        THEN JsonOk(Dict(Put(acc, SubSeq(s, q1 + 1, q2 - 1), r.v)), k + 1)
        ELSE JsonFail

\* json.loads(s): the decoded value, or [t |-> "raise"] for a JSONDecodeError
json_loads(s) ==
    LET r == ParseValue(s, 1)
    IN  IF r.ok /\ SkipWs(s, r.i) > Len(s) THEN r.v ELSE [t |-> "raise", v |-> <<>>]

\* ------------------------------------------------------ generate_flashcards
\* s.find(c), s.rfind(c): 0-based, -1 when absent
RECURSIVE FindFrom(_, _, _)
FindFrom(s, c, i) ==
    IF i > Len(s) THEN -1 ELSE IF s[i] = c THEN i - 1 ELSE FindFrom(s, c, i + 1)
find(s, c) == FindFrom(s, c, 1)

RECURSIVE RFindFrom(_, _, _)
RFindFrom(s, c, i) ==
    IF i < 1 THEN -1 ELSE IF s[i] = c THEN i - 1 ELSE RFindFrom(s, c, i - 1)
rfind(s, c) == RFindFrom(s, c, Len(s))

\* s[a:b] for 0 <= a, 0 <= b
Slice(s, a, b) == SubSeq(s, a + 1, IF b < Len(s) THEN b ELSE Len(s))

\* [l.strip() for l in out.splitlines() if l.strip()]
RECURSIVE StrippedLines(_)
StrippedLines(ls) ==
    IF ls = <<>> THEN <<>>
    ELSE IF strip(Head(ls)) = <<>> THEN StrippedLines(Tail(ls))
    ELSE <<strip(Head(ls))>> \o StrippedLines(Tail(ls))

QA_DELIM == {":", "-", ")"}

\* re.match(r"^\s*Q[:\-\)]", l, flags=re.I) for a stripped line and letter Q
LabelMatch(l, letter) ==
    Len(l) >= 2 /\ lower(<<l[1]>>) = <<letter>> /\ l[2] \in QA_DELIM

\* the index of the first delimiter of the line, 0 if there is none
RECURSIVE FirstDelim(_, _)
FirstDelim(l, i) ==
    IF i > Len(l) THEN 0 ELSE IF l[i] \in QA_DELIM THEN i ELSE FirstDelim(l, i + 1)

\* re.split(r"[:\-\)]\s*", l, maxsplit=1)[1].strip()
AfterDelim(l) == strip(SubSeq(l, FirstDelim(l, 1) + 1, Len(l)))

\* l.lower().startswith("q "), then l.split(" ", 1)[1].strip()
WordLabel(l, letter) == Len(l) >= 2 /\ lower(<<l[1]>>) = <<letter>> /\ l[2] = SP
AfterSpace(l) == strip(SubSeq(l, 3, Len(l)))

\* The loop over the lines of the clean-line parse: q and a are the pending
\* question and answer (<<>> while unset or empty), cards the cards so far.
RECURSIVE QALoop(_, _, _, _)
QALoop(ls, q, a, cards) ==
    IF ls = <<>> THEN cards
    ELSE LET l == Head(ls)
             q1 == IF LabelMatch(l, "q") THEN AfterDelim(l)
                   ELSE IF LabelMatch(l, "a") THEN q
                   ELSE IF WordLabel(l, "q") THEN AfterSpace(l)
                   ELSE q
             a1 == IF LabelMatch(l, "q") THEN a
                   ELSE IF LabelMatch(l, "a") THEN AfterDelim(l)
                   ELSE IF WordLabel(l, "q") THEN a
                   ELSE IF WordLabel(l, "a") THEN AfterSpace(l)
                   ELSE a
         IN  IF q1 # <<>> /\ a1 # <<>>
             THEN QALoop(Tail(ls), <<>>, <<>>, Append(cards, Card(q1, a1)))
             ELSE QALoop(Tail(ls), q1, a1, cards)

\* str(n) for n >= 0
RECURSIVE str(_)
str(n) ==
    LET d == <<"0", "1", "2", "3", "4", "5", "6", "7", "8", "9">>[(n % 10) + 1]
    IN  IF n < 10 THEN <<d>> ELSE str(n \div 10) \o <<d>>

\* last-resort extractive generation: card i of range(count)
RECURSIVE PairSentences(_, _, _)
PairSentences(sents, i, count) ==
    IF i >= count THEN <<>>
    ELSE <<Card(IF i * 2 < Len(sents) THEN sents[i * 2 + 1]
                ELSE <<"C", "o", "n", "c", "e", "p", "t", " ">> \o str(i + 1),
                IF i * 2 + 1 < Len(sents) THEN sents[i * 2 + 2] ELSE <<>>)>>
         \o PairSentences(sents, i + 1, count)

generate_flashcards(t, count, out) ==
    LET start == find(out, "[")
        end == rfind(out, "]") + 1
        data == json_loads(Slice(out, start, end))
        cards == QALoop(StrippedLines(splitlines(out)), <<>>, <<>>, <<>>)
        last_resort == PairSentences(sent_tokenize(t), 0, count)
    IN  IF out # RAISE /\ Truthy(out)
        THEN IF start # -1 /\ end # -1
             THEN IF data.t = "raise"
                  THEN IF cards # <<>> THEN Prefix(cards, count) ELSE last_resort
                  ELSE IF data.t = "list" THEN Prefix(data.v, count)
                  ELSE last_resort
             ELSE last_resort
        ELSE last_resort

\* ----------------------------------------------------------- generate_todos
RECURSIVE lstrip_chars(_, _)
lstrip_chars(s, cs) ==
    IF s # <<>> /\ Head(s) \in cs THEN lstrip_chars(Tail(s), cs) ELSE s

RECURSIVE rstrip_chars(_, _)
rstrip_chars(s, cs) ==
    IF s # <<>> /\ s[Len(s)] \in cs THEN rstrip_chars(SubSeq(s, 1, Len(s) - 1), cs)
    ELSE s

\* [l.strip(chars) for l in lines if l.strip()], with for chars those of
\* "-• \n\t\r" (mis-encoded in the source) that the alphabet has
RECURSIVE TodoLines(_)
TodoLines(ls) ==
    IF ls = <<>> THEN <<>>
    ELSE IF strip(Head(ls)) = <<>> THEN TodoLines(Tail(ls))
    ELSE <<rstrip_chars(lstrip_chars(Head(ls), {"-", SP, NL}), {"-", SP, NL})>>
         \o TodoLines(Tail(ls))

\* len of the fixed list and of the slice [:6]
TODO_COUNT == 6

DEFAULT_TODOS ==
    <<<<"S", "a", "v", "e", " ", "a", "r", "t", "i", "c", "l", "e">>,
      <<"S", "u", "m", "m", "a", "r", "i", "z", "e", " ", "k", "e", "y", " ", "p", "o", "i", "n", "t", "s">>,
      <<"M", "a", "k", "e", " ", "f", "l", "a", "s", "h", "c", "a", "r", "d", "s">>,
      <<"F", "i", "n", "d", " ", "r", "e", "f", "e", "r", "e", "n", "c", "e", "s">>,
      <<"S", "h", "a", "r", "e", " ", "w", "i", "t", "h", " ", "a", " ", "p", "e", "e", "r">>,
      <<"S", "c", "h", "e", "d", "u", "l", "e", " ", "r", "e", "v", "i", "e", "w">>>>

generate_todos(out) ==
    IF out # RAISE /\ Truthy(out)
    THEN Prefix(TodoLines(splitlines(out)), TODO_COUNT)
    ELSE DEFAULT_TODOS


\* ----------------------------------------------------------- fetch_url_text
\* A document: whether the parser accepts it, and its top-level elements in
\* order, each with its tag and the text inside it.
\* the character budget of components.fetch_url_text
FETCH_BUDGET == 20000

\* The texts are "x=1", "ox.\n\n\nit.", "it.", " ax  ox. " and "ERROR 1".
Pages ==
    {[parses |-> TRUE, nodes |-> <<>>],
     [parses |-> TRUE,
      nodes |-> <<[tag |-> "script", txt |-> <<"x", "=", "1">>],
                  [tag |-> "p", txt |-> <<"o", "x", ".", "\n", "\n", "\n", "i", "t", ".">>],
                  [tag |-> "footer", txt |-> <<"i", "t", ".">>]>>],
     [parses |-> TRUE,
      nodes |-> <<[tag |-> "p", txt |-> <<"i", "t", ".">>],
                  [tag |-> "article",
                   txt |-> <<"o", "x", ".", "\n", "\n", "\n", "i", "t", ".">>],
                  [tag |-> "main", txt |-> <<" ", "a", "x", " ", " ", "o", "x", ".", " ">>],
                  [tag |-> "img", txt |-> <<"x", "=", "1">>]>>],
     [parses |-> TRUE,
      nodes |-> <<[tag |-> "p", txt |-> <<"E", "R", "R", "O", "R", " ", "1">>]>>],
     [parses |-> FALSE, nodes |-> <<>>]}

\* A response whose page text is two characters longer than the budget of
\* components.fetch_url_text: "aa aa aa ... a"
LONG_RESPONSE ==
    [kind |-> "response", status |-> 200,
     page |-> [parses |-> TRUE,
               nodes |-> <<[tag |-> "p",
                            txt |-> [k \in 1..(FETCH_BUDGET + 2) |->
                                        IF k % 3 = 0 THEN SP ELSE "a"]]>>]]

\* What requests.get does: it raises (no connection, timeout), or it returns
\* a response with a status code and a document.
HttpOutcomes ==
    [kind : {"connection_error", "timeout"}, status : {0},
     page : {[parses |-> TRUE, nodes |-> <<>>]}]
    \cup [kind : {"response"}, status : {200, 304, 404, 503}, page : Pages]

\* Fault: the status of the response is not checked.
status_unchecked(status) == FALSE

\* Response.raise_for_status(): HTTPError for a 4xx or 5xx status
raise_for_status(status) == 400 <= status /\ status < 600

\* str(e) of the exception that was raised: "refused", "timed out", the
\* status, "parse"
ErrorText(http) ==
    IF http.kind = "connection_error" THEN <<"r", "e", "f", "u", "s", "e", "d">>
    ELSE IF http.kind = "timeout" THEN <<"t", "i", "m", "e", "d", " ", "o", "u", "t">>
    ELSE IF raise_for_status(http.status) THEN str(http.status)
    ELSE <<"p", "a", "r", "s", "e">>

\* the request or the parse raises
FetchRaises(http) ==
    \/ http.kind # "response"
    \/ raise_for_status(http.status)
    \/ ~http.page.parses

\* the texts of the elements that are left once the tags in removed are
\* taken out, each stripped, the empty ones dropped (get_text(strip=True))
RECURSIVE VisibleTexts(_, _)
VisibleTexts(nodes, removed) ==
    IF nodes = <<>> THEN <<>>
    ELSE IF Head(nodes).tag \in removed \/ strip(Head(nodes).txt) = <<>>
    THEN VisibleTexts(Tail(nodes), removed)
    ELSE <<strip(Head(nodes).txt)>> \o VisibleTexts(Tail(nodes), removed)

\* re.sub(r"\n{2,}", "\n\n", text)
\* (nls newlines precede s): a newline that follows two newlines is dropped
CollapseNewlines(s, nls) ==
    LET before(k, d) == IF k - d >= 1 THEN s[k - d] = NL ELSE nls >= d - k + 1
        kept == SelectSeq([k \in 1..Len(s) |-> k],
                          LAMBDA k : ~(s[k] = NL /\ before(k, 1) /\ before(k, 2)))
    IN  [j \in 1..Len(kept) |-> s[kept[j]]]

\* re.sub(r'\s+', ' ', text)
\* (inrun: a whitespace precedes s): a whitespace that follows a whitespace
\* is dropped, the first of a run becomes a space
CollapseSpaces(s, inrun) ==
    LET before(k) == IF k > 1 THEN IsSpace(s[k - 1]) ELSE inrun
        kept == SelectSeq([k \in 1..Len(s) |-> k],
                          LAMBDA k : ~(IsSpace(s[k]) /\ before(k)))
    IN  [j \in 1..Len(kept) |-> IF IsSpace(s[kept[j]]) THEN SP ELSE s[kept[j]]]

\* components_gemini.fetch_url_text, the one app.py imports
fetch_url_text(url, http) ==
    LET removed == {"script", "style", "noscript", "header", "footer", "form"}
        \* "ERROR_FETCH: Could not fetch "
        failed == <<"E", "R", "R", "O", "R", "_", "F", "E", "T", "C", "H", ":", " ", "C",
                    "o", "u", "l", "d", " ", "n", "o", "t", " ", "f", "e", "t", "c", "h",
                    " ">>
    IN  IF FetchRaises(http)
        THEN failed \o url \o <<SP, "(">> \o ErrorText(http) \o <<")">>
        ELSE strip(CollapseNewlines(Join(<<NL>>, VisibleTexts(http.page.nodes, removed)), 0))

\* soup.find(tag): the first element with the tag, among those left
RECURSIVE FindTag(_, _)
FindTag(nodes, tag) ==
    IF nodes = <<>> THEN <<>>
    ELSE IF Head(nodes).tag = tag THEN <<Head(nodes)>>
    ELSE FindTag(Tail(nodes), tag)

\* components.fetch_url_text (the older variant)
components_fetch_url_text(url, http) ==
    LET removed == {"script", "style", "noscript", "header", "footer", "svg", "img",
                    "figure"}
        \* "ERROR: Could not fetch URL: "
        failed == <<"E", "R", "R", "O", "R", ":", " ", "C", "o", "u", "l", "d", " ", "n",
                    "o", "t", " ", "f", "e", "t", "c", "h", " ", "U", "R", "L", ":", " ">>
        nodes == SelectSeq(http.page.nodes, LAMBDA nd : nd.tag \notin removed)
        region == IF FindTag(nodes, "main") # <<>> THEN FindTag(nodes, "main")
                  ELSE IF FindTag(nodes, "article") # <<>> THEN FindTag(nodes, "article")
                  ELSE nodes
        txt == CollapseSpaces(Join(<<SP>>, VisibleTexts(region, {})), FALSE)
    IN  IF FetchRaises(http) THEN failed \o ErrorText(http)
        ELSE IF Len(txt) > FETCH_BUDGET
        THEN Prefix(txt, FETCH_BUDGET) \o <<".", ".", ".">>
        ELSE txt

\* Fault: the sentinel is matched in lower case.
ERROR_PREFIX_lowercase == <<"e", "r", "r", "o", "r">>

\* content.startswith("ERROR") in app.py
ERROR_PREFIX ==
    <<"E", "R", "R", "O", "R">>

Urls == {<<"u">>, <<"v", "/">>}

\* --------------------------------------------------------------- the inputs
\* Sentence forms: a stop-word sentence, a one-term sentence, and a term
\* without a terminator, which runs on into the form that follows it.
Forms == {<<"i", "t", ".">>, <<"o", "x", ".">>, <<"a", "x">>}

\* Seven more sentences, so that a text exceeds SUMMARY_SENTENCES:
\* "ox. it. ax ox. it. ox. ax ax ox. it."
TAIL_FORMS ==
    <<<<"o", "x", ".">>, <<"i", "t", ".">>, <<"a", "x">>, <<"o", "x", ".">>,
      <<"i", "t", ".">>, <<"o", "x", ".">>, <<"a", "x">>, <<"a", "x">>,
      <<"o", "x", ".">>, <<"i", "t", ".">>>>

\* The input texts: up to MaxForms forms, with or without the tail, joined
\* by single spaces; and a blank text.
Texts ==
    {Join(<<SP>>, fs \o tl) : fs \in UNION {[1..k -> Forms] : k \in 0..MaxForms},
                              tl \in {<<>>, TAIL_FORMS}} \cup {<<SP>>}

Clients == {"genai", "vertexai", "none"}

\* A function application: its inputs, its result, and the calls it made
\* itself to services and engines outside the program, in order.
NoCall ==
    [op |-> "none", n |-> 0, out |-> NONE, top |-> NoTop, res |-> NONE, remote |-> <<>>]

\* ----------------------------------------------------- the Streamlit session
\* st.session_state: the keys that are set, and the value of each (a field
\* whose key is not set holds the value its first assignment gives it).
\* A dict is the set of its <<key, value>> pairs.
EmptySession ==
    [keys |-> {}, show_app |-> FALSE, emotion |-> "listening", history |-> <<>>,
     memory |-> {}, chrome_content |-> NONE]

\* the sidebar widgets a run reads; two of the three languages offered
Settings == [lang : {"English", "Hindi"}, enable_tts : BOOLEAN, memory_mode : BOOLEAN]
DefaultSettings == [lang |-> "English", enable_tts |-> TRUE, memory_mode |-> TRUE]

\* an element a script run emits for the avatar: the server-side render, or
\* a client-side setAvatar(state, lipsync) that runs after `after` ms
Avatar(via, state, lipsync, after) ==
    [via |-> via, state |-> state, lipsync |-> lipsync, after |-> after]

\* what a script run did: the widget that triggered it, the content the
\* fetch handler chose and where from, whether st.stop() ended it, the
\* external functions it called, the avatar elements and moods in order,
\* what the page shows at its end, the prompt the chat box held, and what
\* the text area and the URL box held
NoRun ==
    [trigger |-> "none", source |-> "none", content |-> NONE, stopped |-> FALSE,
     calls |-> <<>>, avatar |-> <<>>, moods |-> <<>>, summary |-> NONE,
     actions |-> NONE, audio |-> NONE, followups |-> {}, prompt |-> NONE,
     raw_text |-> NONE, url |-> NONE]

\* if "show_app" not in st.session_state: st.session_state.show_app = False
EnsureShowApp(s) ==
    IF "show_app" \in s.keys THEN s
    ELSE [s EXCEPT !.keys = @ \cup {"show_app"}, !.show_app = FALSE]

\* Fault: the initialisation of the main app takes the page back to the
\* landing.
InitMainApp_relanding(s) ==
    [s EXCEPT !.keys = @ \cup {"emotion", "history", "memory"},
              !.show_app = FALSE,
              !.emotion = IF "emotion" \in s.keys THEN @ ELSE "listening",
              !.history = IF "history" \in s.keys THEN @ ELSE <<>>,
              !.memory = IF "memory" \in s.keys THEN @ ELSE {}]

\* the head of the main app: emotion, history and memory are set when absent
InitMainApp(s) ==
    [s EXCEPT !.keys = @ \cup {"emotion", "history", "memory"},
              !.emotion = IF "emotion" \in s.keys THEN @ ELSE "listening",
              !.history = IF "history" \in s.keys THEN @ ELSE <<>>,
              !.memory = IF "memory" \in s.keys THEN @ ELSE {}]

\* d[k] = v
DictSet(d, k, v) == {e \in d : e[1] # k} \cup {<<k, v>>}

\* the foot of the main app:
\* if memory_mode: st.session_state.setdefault("memory", {})["fav_language"] = lang
PersistMemory(s, st) ==
    IF st.memory_mode
    THEN [s EXCEPT !.keys = @ \cup {"memory"},
                   !.memory = DictSet(IF "memory" \in s.keys THEN @ ELSE {},
                                      "fav_language", st.lang)]
    ELSE s

\* render_avatar(state): state = state or "listening"; the label in the image
render_avatar(state) == IF state = "" THEN "listening" ELSE state

\* a run of the main app that no button triggers, from head to foot
MainRun(s, st) ==
    LET s1 == InitMainApp(s)
    IN  [session |-> PersistMemory(s1, st),
         avatar |-> <<Avatar("render_avatar", render_avatar(s1.emotion), FALSE, 0)>>]

\* the main app is on the page
InApp == "show_app" \in session_state.keys /\ session_state.show_app

\* ------------------------------------------------------------- text to speech
\* Fault: no local engine after the cloud client raised.
tts_create_audio_bytes_cloud_only(env) ==
    IF env.gcp_audio /\ env.credentials
    THEN IF env.cloud = "audio" THEN <<"mp3", "cloud">>
         ELSE IF env.cloud = "empty" THEN <<>> ELSE NONE
    ELSE IF env.local = "audio" THEN <<"mp3", "local">>
    ELSE NONE

\* tts_create_audio_bytes: env says whether the cloud library was imported
\* and the credentials are set, and what the cloud call and pyttsx3 do
tts_create_audio_bytes(env) ==
    IF env.gcp_audio /\ env.credentials /\ env.cloud # "raise"
    THEN IF env.cloud = "audio" THEN <<"mp3", "cloud">> ELSE <<>>
    ELSE IF env.local = "audio" THEN <<"mp3", "local">>
    ELSE NONE

\* the engines tts_create_audio_bytes calls, in order
TtsCalls(env) ==
    (IF env.gcp_audio /\ env.credentials
     THEN <<[service |-> "gcp", api |-> "synthesize_speech"]>> ELSE <<>>)
    \o (IF env.gcp_audio /\ env.credentials /\ env.cloud # "raise" THEN <<>>
        ELSE <<[service |-> "pyttsx3", api |-> "save_to_file"]>>)

\* ------------------------------------------------------------- speech to text
\* Fault: the error string also when the cloud recogniser hears nothing.
stt_from_uploaded_bytes_empty_is_error(env) ==
    IF env.gcp_audio /\ env.credentials /\ env.cloud = "audio"
    THEN <<"o", "x">>
    ELSE IF env.local = "audio" /\ ~(env.gcp_audio /\ env.credentials /\ env.cloud = "empty")
    THEN <<"a", "x">>
    ELSE <<"E", "R", "R", "O", "R", "_", "S", "T", "T", ":">> \o <<"e">>

\* stt_from_uploaded_bytes: the cloud transcript ("ox", or "" when nothing was
\* recognised), else the local one ("ax"), else "ERROR_STT:" and the message
stt_from_uploaded_bytes(env) ==
    IF env.gcp_audio /\ env.credentials /\ env.cloud # "raise"
    THEN IF env.cloud = "audio" THEN <<"o", "x">> ELSE <<>>
    ELSE IF env.local = "audio" THEN <<"a", "x">>
    ELSE <<"E", "R", "R", "O", "R", "_", "S", "T", "T", ":">> \o <<"e">>

\* the recognisers stt_from_uploaded_bytes calls, in order
SttCalls(env) ==
    (IF env.gcp_audio /\ env.credentials
     THEN <<[service |-> "gcp", api |-> "recognize"]>> ELSE <<>>)
    \o (IF env.gcp_audio /\ env.credentials /\ env.cloud # "raise" THEN <<>>
        ELSE <<[service |-> "web speech", api |-> "recognize_google"]>>)

\* ------------------------------------------------------------ slide export
\* body.clear() and one add_paragraph() per item: TextFrame.clear() of
\* python-pptx removes every paragraph but the first, which it empties
Body(items) == <<<<>>>> \o items

\* Fault: an exception of a building step escapes.
export_to_pptx_uncaught(title, bullets, actions, env) ==
    IF ~env.pptx_available THEN NONE
    ELSE IF env.fails THEN RAISE
    ELSE <<"BytesIO", 0,
           <<[title |-> title, body |-> <<>>],
             [title |-> "Key points", body |-> Body(bullets)],
             [title |-> "Action items", body |-> Body(actions)]>>>>

\* export_to_pptx: env says whether python-pptx was imported and whether a
\* step of the building raises; the result is None or the BytesIO, with its
\* position and the deck saved in it, a slide being its title and the
\* paragraphs of its body text frame
export_to_pptx(title, bullets, actions, env) ==
    IF ~env.pptx_available \/ env.fails THEN NONE
    ELSE <<"BytesIO", 0,
           <<[title |-> title, body |-> <<>>],
             [title |-> "Key points", body |-> Body(bullets)],
             [title |-> "Action items", body |-> Body(actions)]>>>>

\* if pptx_bytes: st.download_button(...); a BytesIO is truthy
OffersDownload(pptx_bytes) == pptx_bytes # NONE

\* the bullets and the actions of an export
BulletLists == UNION {[1..k -> {<<"o", "x", ".">>, <<"i", "t", ".">>}] : k \in 0..MaxBullets}

CHARS_PER_SECOND == 14
\* app.py, when components_gemini cannot be imported: len(text)/18.0
FALLBACK_CHARS_PER_SECOND == 18

\* Fault: the estimate is not floored at one second.
estimate_audio_duration_seconds_unfloored(t) ==
    <<IF Len(t) > 1 THEN Len(t) ELSE 1, CHARS_PER_SECOND>>

\* max(1.0, max(1, len(text)) / 14.0): the seconds as the fraction
\* <<numerator, denominator>>
estimate_audio_duration_seconds(t) ==
    LET chars == IF Len(t) > 1 THEN Len(t) ELSE 1
    IN  IF chars <= CHARS_PER_SECOND THEN <<CHARS_PER_SECOND, CHARS_PER_SECOND>>
        ELSE <<chars, CHARS_PER_SECOND>>

\* the stub app.py defines when the import fails: max(1.0, len(text)/18.0)
estimate_audio_duration_seconds_fallback(t) ==
    IF Len(t) <= FALLBACK_CHARS_PER_SECOND
    THEN <<FALLBACK_CHARS_PER_SECOND, FALLBACK_CHARS_PER_SECOND>>
    ELSE <<Len(t), FALLBACK_CHARS_PER_SECOND>>

\* int(estimate_audio_duration_seconds(text) * 1000), in milliseconds:
\* max(1.0, max(1, len(text)) / 14.0) seconds
estimate_audio_duration_ms(t) ==
    LET chars == IF Len(t) > 1 THEN Len(t) ELSE 1
    IN  IF chars <= CHARS_PER_SECOND THEN 1000 ELSE (chars * 1000) \div CHARS_PER_SECOND

\* -------------------------------------------------- the inputs of a session
\* One call of the generation function: what its remote calls do.
Env(primary, legacy) == [primary |-> primary, legacy |-> legacy]
Raises == [kind |-> "raise", val |-> <<>>]
Answers(val) == Env([kind |-> "text", val |-> val], Raises)
LegacyAnswers(val) == Env(Raises, [kind |-> "text", val |-> val])
Gen(env) == _gemini_generate_text(GEN_CLIENT, env.primary, env.legacy)

\* What the services do during a fetch run: the answers to the summary, the
\* action-item and the sentiment prompt.
FetchEnvs ==
    {[summary |-> Env(Raises, Raises), actions |-> Env(Raises, Raises),
      sentiment |-> Env(Raises, Raises)],
     [summary |-> Answers(R.summary), actions |-> Answers(R.todos),
      sentiment |-> Answers(R.positive)],
     [summary |-> Answers(R.negative), actions |-> Env(Raises, Raises),
      sentiment |-> LegacyAnswers(R.negative)]}

\* What the services do during a chat turn: the answers to the chat and the
\* sentiment prompt, and the speech synthesis.
SendEnvs ==
    {[chat |-> Env(Raises, Raises), sentiment |-> Env(Raises, Raises),
      tts |-> [gcp_audio |-> FALSE, credentials |-> TRUE, cloud |-> "audio",
               local |-> "raise"]],
     [chat |-> Answers(R.positive), sentiment |-> Answers(R.positive),
      tts |-> [gcp_audio |-> TRUE, credentials |-> TRUE, cloud |-> "audio",
               local |-> "raise"]],
     [chat |-> Env([kind |-> "dict", val |-> R.empty], Raises),
      sentiment |-> LegacyAnswers(R.negative),
      tts |-> [gcp_audio |-> TRUE, credentials |-> FALSE, cloud |-> "audio",
               local |-> "audio"]],
     [chat |-> Answers(R.positive), sentiment |-> Answers(R.summary),
      tts |-> [gcp_audio |-> TRUE, credentials |-> TRUE, cloud |-> "empty",
               local |-> "audio"]]}

\* a pasted text of more than 50 characters:
\* "ox ax ox ax ox ax. it it it it it. ax ax ax ax ax ox. ox ox ox ox."
PASTE_LONG ==
    <<"o", "x", " ", "a", "x", " ", "o", "x", " ", "a", "x", " ", "o", "x", " ", "a",
      "x", ".", " ", "i", "t", " ", "i", "t", " ", "i", "t", " ", "i", "t", " ", "i",
      "t", ".", " ", "a", "x", " ", "a", "x", " ", "a", "x", " ", "a", "x", " ", "a",
      "x", " ", "o", "x", ".", " ", "o", "x", " ", "o", "x", " ", "o", "x", " ", "o",
      "x", ".">>
\* what the user left in the text area and in the URL box
FetchInputs ==
    {[raw_text |-> <<>>, url |-> <<>>],
     [raw_text |-> <<"o", "x", ".">>, url |-> <<"u">>],
     [raw_text |-> PASTE_LONG, url |-> <<"u">>],
     [raw_text |-> <<SP>> \o PASTE_LONG \o <<NL>>, url |-> <<>>]}

\* what the request of a fetch may do: a timeout, a page, an error status
AppHttp ==
    {h \in HttpOutcomes :
        \/ h.kind = "timeout"
        \/ h.kind = "response" /\ h.status = 200 /\ h.page.parses /\ Len(h.page.nodes) # 4
        \/ h.kind = "response" /\ h.status = 503 /\ h.page.nodes = <<>> /\ h.page.parses}
NoHttp == [kind |-> "none", status |-> 0, page |-> [parses |-> TRUE, nodes |-> <<>>]]

\* the prompts typed into the chat box: none, a blank one and a question
Prompts == {<<>>, <<SP>>, <<"o", "x", "?">>}

\* the length the stripped pasted text has to exceed
PASTE_MIN == 50

\* the reply of the chat when the generation returns nothing:
\* "Gemini not configured or not available. Fallback reply."
CHAT_FALLBACK ==
    <<"G", "e", "m", "i", "n", "i", " ", "n", "o", "t", " ", "c", "o", "n", "f", "i",
      "g", "u", "r", "e", "d", " ", "o", "r", " ", "n", "o", "t", " ", "a", "v", "a",
      "i", "l", "a", "b", "l", "e", ".", " ", "F", "a", "l", "l", "b", "a", "c", "k",
      " ", "r", "e", "p", "l", "y", ".">>

\* ------------------------------------------- specification of the functions
InitFn ==
    /\ text \in Texts
    /\ SCIPY_AVAILABLE \in BOOLEAN
    /\ GEN_CLIENT \in Clients
    /\ call = NoCall
    /\ session_state = EmptySession
    /\ settings = DefaultSettings
    /\ run = NoRun

\* One function is applied to the inputs, once.
NotCalled == call.op = "none"

ReturnedAfter(op, n, out, top, res, remote) ==
    /\ call' = [op |-> op, n |-> n, out |-> out, top |-> top, res |-> res,
                remote |-> remote]
    /\ UNCHANGED <<text, SCIPY_AVAILABLE, GEN_CLIENT, session_state, settings, run>>

Returned(op, n, out, top, res) == ReturnedAfter(op, n, out, top, res, <<>>)

CallExtractiveSummary ==
    /\ NotCalled
    /\ \E n \in 1..MaxN :
        \E top \in RankChoices(text, n) :
            Returned("extractive_summary", n, NONE, top, extractive_summary(text, n, top))

CallSmartSummarize ==
    /\ NotCalled
    /\ \E top \in RankChoices(text, SUMMARY_SENTENCES), out \in GenOutcomes(GEN_CLIENT) :
        Returned("smart_summarize", SUMMARY_SENTENCES, out, top,
                 smart_summarize(text, out, top))

CallGenerateActionItems ==
    /\ NotCalled
    /\ \E out \in GenOutcomes(GEN_CLIENT) :
        Returned("generate_action_items", 0, out, NoTop, generate_action_items(text, out))

CallAnalyzeEmotion ==
    /\ NotCalled
    /\ \E out \in GenOutcomes(GEN_CLIENT) :
        Returned("analyze_emotion", 0, out, NoTop, analyze_emotion(out))

CallGenerateFlashcards ==
    /\ NotCalled
    /\ \E out \in GenOutcomes(GEN_CLIENT), count \in (0..MaxCount) \cup {FLASHCARD_COUNT} :
        Returned("generate_flashcards", count, out, NoTop,
                 generate_flashcards(text, count, out))

CallGenerateTodos ==
    /\ NotCalled
    /\ \E out \in GenOutcomes(GEN_CLIENT) :
        Returned("generate_todos", 0, out, NoTop, generate_todos(out))

\* legacy is drawn only where generate_text is reached
CallGeminiGenerateText ==
    /\ NotCalled
    /\ \E p \in RemoteOutcomes :
        \E l \in (IF p.kind = "raise" THEN RemoteOutcomes ELSE {Raises}) :
            ReturnedAfter("_gemini_generate_text", 0, Env(p, l), NoTop,
                          _gemini_generate_text(GEN_CLIENT, p, l),
                          GenerateCalls(GEN_CLIENT, p))

\* the key is set or not; the two completions answer or raise
CallOpenaiSummarize ==
    /\ NotCalled
    /\ \E key \in BOOLEAN, chat \in {Raises, [kind |-> "text", val |-> R.summary]},
          completion \in {Raises, [kind |-> "text", val |-> R.positive]} :
        ReturnedAfter("openai_summarize", 0,
                      [key |-> key, chat |-> chat, completion |-> completion], NoTop,
                      openai_summarize(key, chat, completion), OpenaiCalls(key, chat))

\* what the speech libraries may do: the cloud call answers audio, answers
\* no audio or raises; the local engine gives its result or raises
CallTtsCreateAudioBytes ==
    /\ NotCalled
    /\ \E env \in [gcp_audio : BOOLEAN, credentials : BOOLEAN,
                  cloud : {"audio", "empty", "raise"}, local : {"audio", "raise"}] :
        ReturnedAfter("tts_create_audio_bytes", 0, env, NoTop,
                      tts_create_audio_bytes(env), TtsCalls(env))

CallSttFromUploadedBytes ==
    /\ NotCalled
    /\ \E env \in [gcp_audio : BOOLEAN, credentials : BOOLEAN,
                  cloud : {"audio", "empty", "raise"}, local : {"audio", "raise"}] :
        ReturnedAfter("stt_from_uploaded_bytes", 0, env, NoTop,
                      stt_from_uploaded_bytes(env), SttCalls(env))

\* The estimate reads the length of its text only; app.py binds the name
\* to the function of components_gemini, or to its own stub when the
\* import failed.
CallEstimateAudioDuration ==
    /\ NotCalled
    /\ \E n \in 0..MaxChars, imported \in BOOLEAN :
        LET t == [k \in 1..n |-> "a"]
        IN  IF imported
            THEN Returned("estimate_audio_duration_seconds", n, t, NoTop,
                          estimate_audio_duration_seconds(t))
            ELSE Returned("estimate_audio_duration_seconds (fallback)", n, t, NoTop,
                          estimate_audio_duration_seconds_fallback(t))

CallExportToPptx ==
    /\ NotCalled
    /\ \E bullets \in BulletLists, actions \in BulletLists,
          env \in [pptx_available : BOOLEAN, fails : BOOLEAN] :
        Returned("export_to_pptx", 0,
                 [bullets |-> bullets, actions |-> actions, env |-> env], NoTop,
                 export_to_pptx("PageBuddy Export", bullets, actions, env))

\* The fetch reads neither the text nor the clients: the long page is
\* requested in the behaviours that start from the blank text without them.
HttpChoices ==
    IF text = <<SP>> /\ GEN_CLIENT = "none" /\ ~SCIPY_AVAILABLE
    THEN HttpOutcomes \cup {LONG_RESPONSE}
    ELSE HttpOutcomes

CallFetchUrlText ==
    /\ NotCalled
    /\ \E url \in Urls, http \in HttpChoices :
        ReturnedAfter("fetch_url_text", 0, [url |-> url, http |-> http], NoTop,
                      fetch_url_text(url, http),
                      <<[service |-> "web", api |-> "requests.get"]>>)

CallComponentsFetchUrlText ==
    /\ NotCalled
    /\ \E url \in Urls, http \in HttpChoices :
        ReturnedAfter("components.fetch_url_text", 0, [url |-> url, http |-> http], NoTop,
                      components_fetch_url_text(url, http),
                      <<[service |-> "web", api |-> "requests.get"]>>)

NextFn ==
    \/ CallExportToPptx
    \/ CallTtsCreateAudioBytes
    \/ CallSttFromUploadedBytes
    \/ CallGeminiGenerateText
    \/ CallEstimateAudioDuration
    \/ CallOpenaiSummarize
    \/ CallFetchUrlText
    \/ CallComponentsFetchUrlText
    \/ CallGenerateFlashcards
    \/ CallGenerateTodos
    \/ CallExtractiveSummary
    \/ CallSmartSummarize
    \/ CallGenerateActionItems
    \/ CallAnalyzeEmotion

SpecFn == InitFn /\ [][NextFn]_vars

\* ------------------------------------------------------------ the handlers
\* The first script run of a session: the landing page, or the main app
\* when the address carries __launch=1.
Load ==
    /\ "show_app" \notin session_state.keys
    /\ \E launch \in BOOLEAN :
        LET s == EnsureShowApp(session_state)
            main == MainRun([s EXCEPT !.show_app = TRUE], settings)
        IN  IF launch
            THEN /\ session_state' = main.session
                 /\ run' = [NoRun EXCEPT !.trigger = "load", !.avatar = main.avatar]
            ELSE /\ session_state' = s
                 /\ run' = [NoRun EXCEPT !.trigger = "load"]
    /\ UNCHANGED <<text, SCIPY_AVAILABLE, GEN_CLIENT, call, settings>>

\* The Launch NOVA button of the landing page: show_app is set, and the
\* rerun renders the main app.
Launch ==
    /\ "show_app" \in session_state.keys
    /\ ~session_state.show_app
    /\ LET main == MainRun([session_state EXCEPT !.show_app = TRUE], settings)
       IN  /\ session_state' = main.session
           /\ run' = [NoRun EXCEPT !.trigger = "launch", !.avatar = main.avatar]
    /\ UNCHANGED <<text, SCIPY_AVAILABLE, GEN_CLIENT, call, settings>>

\* One sidebar widget changes: the script runs with no button pressed.
ChangeSettings ==
    /\ InApp
    /\ \E new \in Settings :
        /\ Cardinality({f \in DOMAIN new : new[f] # settings[f]}) = 1
        /\ settings' = new
        /\ LET main == MainRun(session_state, new)
           IN  /\ session_state' = main.session
               /\ run' = [NoRun EXCEPT !.trigger = "settings", !.avatar = main.avatar]
    /\ UNCHANGED <<text, SCIPY_AVAILABLE, GEN_CLIENT, call>>

\* Fault: the URL is preferred to the pasted text.
ContentSource_url_first(s, raw_text, url) ==
    IF "chrome_content" \in s.keys /\ Truthy(s.chrome_content) THEN "extension"
    ELSE IF url # <<>> THEN "url"
    ELSE IF raw_text # <<>> /\ Len(strip(raw_text)) > PASTE_MIN THEN "pasted"
    ELSE "none"

\* where the fetch handler takes the content from
ContentSource(s, raw_text, url) ==
    IF "chrome_content" \in s.keys /\ Truthy(s.chrome_content) THEN "extension"
    ELSE IF raw_text # <<>> /\ Len(strip(raw_text)) > PASTE_MIN THEN "pasted"
    ELSE IF url # <<>> THEN "url"
    ELSE "none"

SelectContent(s, source, raw_text, url, http) ==
    IF source = "extension" THEN s.chrome_content
    ELSE IF source = "pasted" THEN strip(raw_text)
    ELSE IF source = "url" THEN fetch_url_text(url, http)
    ELSE <<>>

\* the buttons the fetch handler puts under a summary
FollowUps(st) ==
    {"flashcards", "todos", "export"} \cup (IF st.enable_tts THEN {"narrate"} ELSE {})

\* The Fetch & Summarize button.
FetchAndSummarize ==
    /\ InApp
    /\ \E in \in FetchInputs :
        LET s == InitMainApp(session_state)
            raw_text == in.raw_text
            url == in.url
            source == ContentSource(s, raw_text, url)
            rendered == <<Avatar("render_avatar", render_avatar(s.emotion), FALSE, 0)>>
            fetched == IF source = "url" THEN <<"fetch_url_text">> ELSE <<>>
        IN  \E http \in (IF source = "url" THEN AppHttp ELSE {NoHttp}) :
                LET content == SelectContent(s, source, raw_text, url, http)
                IN  IF content = <<>> \/ StartsWith(content, ERROR_PREFIX)
                    THEN \* st.stop()
                         /\ session_state' = s
                         /\ run' = [NoRun EXCEPT !.trigger = "fetch", !.source = source,
                                                 !.content = content, !.stopped = TRUE,
                                                 !.calls = fetched, !.avatar = rendered,
                                                 !.raw_text = raw_text, !.url = url]
                    ELSE \E top \in RankChoices(content, SUMMARY_SENTENCES),
                            env \in FetchEnvs :
                             LET summary == smart_summarize(content, Gen(env.summary), top)
                                 actions == generate_action_items(content, Gen(env.actions))
                                 emotion == analyze_emotion(Gen(env.sentiment))
                             IN  /\ session_state' = PersistMemory(s, settings)
                                 /\ run' =
                                     [NoRun EXCEPT
                                         !.trigger = "fetch", !.source = source,
                                         !.content = content,
                                         !.calls = fetched \o <<"smart_summarize",
                                             "generate_action_items", "analyze_emotion">>,
                                         !.avatar = rendered \o
                                             <<Avatar("setAvatar", "thinking", FALSE, 0),
                                               Avatar("setAvatar", emotion, FALSE, 0)>>,
                                         !.moods = <<emotion>>,
                                         !.summary = summary, !.actions = actions,
                                         !.followups = FollowUps(settings),
                                         !.raw_text = raw_text, !.url = url]
    /\ UNCHANGED <<text, SCIPY_AVAILABLE, GEN_CLIENT, call, settings>>

\* A button under the summary: the script runs again, the fetch button reads
\* False in that run, and the block that holds the button is not entered.
FollowUp ==
    /\ InApp
    /\ \E button \in run.followups :
        LET main == MainRun(session_state, settings)
        IN  /\ session_state' = main.session
            /\ run' = [NoRun EXCEPT !.trigger = button, !.avatar = main.avatar]
    /\ UNCHANGED <<text, SCIPY_AVAILABLE, GEN_CLIENT, call, settings>>

Entry(role, txt) == [role |-> role, txt |-> txt]

\* Fault: the reply goes to the transcript as the call gave it.
ChatReply_verbatim(out) == out

\* except Exception as e: res = f"ERROR: model call failed: {e}"
\* if not res: res = "Gemini not configured or not available. Fallback reply."
ChatReply(out) ==
    IF out = RAISE
    THEN <<"E", "R", "R", "O", "R", ":", " ", "m", "o", "d", "e", "l", " ", "c", "a", "l",
           "l", " ", "f", "a", "i", "l", "e", "d", ":", " ", "e">>
    ELSE IF Truthy(out) THEN out
    ELSE CHAT_FALLBACK

\* Fault: no assistant entry when the reply is the fallback.
AppendTurn_reply_optional(history, prompt, res) ==
    IF res = CHAT_FALLBACK THEN Append(history, Entry("user", prompt))
    ELSE Append(Append(history, Entry("user", prompt)), Entry("assistant", res))

\* Fault: the turn is assigned to the transcript instead of appended.
AppendTurn_assign(history, prompt, res) ==
    <<Entry("user", prompt), Entry("assistant", res)>>

\* the two appends of a chat turn: the prompt, then the reply
AppendTurn(history, prompt, res) ==
    Append(Append(history, Entry("user", prompt)), Entry("assistant", res))

\* The Send button of the chat.
Send ==
    /\ InApp
    /\ \E prompt \in Prompts :
        LET s == InitMainApp(session_state)
            rendered == <<Avatar("render_avatar", render_avatar(s.emotion), FALSE, 0)>>
        IN  IF strip(prompt) = <<>>
            THEN \* st.warning("Write a prompt.")
                 /\ session_state' = PersistMemory(s, settings)
                 /\ run' = [NoRun EXCEPT !.trigger = "send", !.prompt = prompt,
                                         !.avatar = rendered]
            ELSE /\ Len(s.history) < 2 * MaxTurns
                 /\ \E env \in SendEnvs :
                     LET out == Gen(env.chat)
                         res == ChatReply(out)
                         told == [s EXCEPT !.history = AppendTurn(@, prompt, res)]
                         emot == analyze_emotion(Gen(env.sentiment))
                         audio == IF settings.enable_tts
                                  THEN tts_create_audio_bytes(env.tts) ELSE NONE
                         spoken == IF Truthy(audio)
                                   THEN <<Avatar("setAvatar", emot, TRUE, 0),
                                          Avatar("setAvatar", "listening", FALSE,
                                                 estimate_audio_duration_ms(res))>>
                                   ELSE <<>>
                         \* st.experimental_rerun()
                         main == MainRun(told, settings)
                     IN  /\ session_state' = main.session
                         /\ run' =
                             [NoRun EXCEPT
                                 !.trigger = "send", !.prompt = prompt,
                                 !.calls = <<"_gemini_generate_text", "analyze_emotion">> \o
                                     (IF settings.enable_tts
                                      THEN <<"tts_create_audio_bytes">> ELSE <<>>),
                                 !.avatar = rendered \o
                                     <<Avatar("setAvatar", "thinking", FALSE, 0),
                                       Avatar("setAvatar", emot, FALSE, 0)>> \o
                                     spoken \o main.avatar,
                                 !.moods = <<emot>>,
                                 !.audio = audio]
    /\ UNCHANGED <<text, SCIPY_AVAILABLE, GEN_CLIENT, call, settings>>

Next ==
    \/ Load
    \/ Launch
    \/ ChangeSettings
    \/ FetchAndSummarize
    \/ FollowUp
    \/ Send

\* The contents of a session hold at most SUMMARY_SENTENCES sentences, so no
\* run of it reads SCIPY_AVAILABLE.
Init ==
    /\ text = <<>>
    /\ SCIPY_AVAILABLE = TRUE
    /\ GEN_CLIENT \in Clients
    /\ call = NoCall
    /\ session_state = EmptySession
    /\ settings = DefaultSettings
    /\ run = NoRun

Spec == Init /\ [][Next]_vars

\* ================================================================== claims
ApiFailed(out) == out \in {NONE, RAISE}

HasSentence(t) == sent_tokenize(t) # <<>>

\* a {"q": ..., "a": ...} dict of two strings
IsCard(v) ==
    /\ v.t = "dict"
    /\ DOMAIN v.v = {K_Q, K_A}
    /\ v.v[K_Q].t = "str"
    /\ v.v[K_A].t = "str"

\* C1 as stated: when the generation call raises or returns nothing, then for
\* every input text smart_summarize and generate_action_items return a
\* non-empty string, generate_flashcards a non-empty list of {q, a} pairs and
\* generate_todos a non-empty list of strings.
C1_FallbacksNonEmptyForEveryText ==
    ApiFailed(call.out) =>
        /\ call.op \in {"smart_summarize", "generate_action_items"} => call.res # <<>>
        /\ call.op = "generate_flashcards" /\ call.n >= 1 =>
               call.res # <<>> /\ \A k \in DOMAIN call.res : IsCard(call.res[k])
        /\ call.op = "generate_todos" =>
               call.res # <<>> /\ \A k \in DOMAIN call.res : call.res[k] # <<>>

\* C1, amended: when the generation call raises or returns nothing, then for
\* every input text that holds at least one sentence smart_summarize and
\* generate_action_items return a non-empty string (for a text without a
\* sentence they return the empty string); for every text generate_flashcards
\* with a count of at least 1 returns count {q, a} pairs and generate_todos
\* returns its six fixed non-empty strings.
C1_FallbacksNonEmpty ==
    ApiFailed(call.out) =>
        /\ call.op \in {"smart_summarize", "generate_action_items"} =>
               (call.res # <<>> <=> HasSentence(text))
        /\ call.op = "generate_flashcards" /\ call.n >= 1 =>
               Len(call.res) = call.n /\ \A k \in DOMAIN call.res : IsCard(call.res[k])
        /\ call.op = "generate_todos" =>
               Len(call.res) = TODO_COUNT /\ \A k \in DOMAIN call.res : call.res[k] # <<>>

C1_Witness ==
    /\ call.op = "smart_summarize"
    /\ call.out = RAISE
    /\ Len(sent_tokenize(text)) > SUMMARY_SENTENCES
    /\ call.res # <<>>

\* C3: for a text of at most n_sentences sentences the result of
\* extractive_summary splits back into exactly the sentences of the text, in
\* their order, none dropped, changed or repeated.
C3_ShortTextKeptWhole ==
    call.op = "extractive_summary" /\ Len(sent_tokenize(text)) <= call.n =>
        sent_tokenize(call.res) = sent_tokenize(text)

C3_Witness ==
    /\ call.op = "extractive_summary"
    /\ Len(sent_tokenize(text)) = call.n
    /\ call.n = MaxN
    /\ sent_tokenize(call.res) = sent_tokenize(text)

\* C4 as stated: the result of extractive_summary holds at most n_sentences
\* sentences, on every path.
C4_AtMostNSentences ==
    call.op = "extractive_summary" => Len(sent_tokenize(call.res)) <= call.n

\* the sentences at the positions T, in increasing order of position
Selected(t, T) == Join(<<SP>>, Pick(sent_tokenize(t), SortedIdx(T)))

\* T holds n positions, and no sentence left out scores above one in T
IsTopN(t, w, T, n) ==
    LET sc == Scores(sent_tokenize(t), w)
    IN  /\ Cardinality(T) = n
        /\ \A i \in T : \A j \in DOMAIN sc \ T : ScoreLE(sc[j], sc[i])

ReturnsTopN ==
    \E T \in SUBSET (1..Len(sent_tokenize(text))) :
        IsTopN(text, call.top.w, T, call.n) /\ call.res = Selected(text, T)

\* C5 as stated: for a text of more than N sentences extractive_summary
\* returns N sentences at distinct positions, the N with the highest scores,
\* in increasing order of position.
C5_TopNInOrder ==
    call.op = "extractive_summary" /\ Len(sent_tokenize(text)) > call.n => ReturnsTopN

\* C5, amended: for a text of more than N sentences, when the vectorizer is
\* available and scores the sentences (some sentence has a term that is no
\* stop word), extractive_summary returns N sentences at distinct positions,
\* none scoring below a sentence left out, in increasing order of position;
\* when the vectorizer is unavailable it returns the first N sentences; and
\* when the vectorizer finds no term (the scoring raises) it returns the
\* first 800 characters of the text, whatever number of sentences they hold.
C5_TopNInOrderWhenScored ==
    call.op = "extractive_summary" /\ Len(sent_tokenize(text)) > call.n =>
        /\ SCIPY_AVAILABLE /\ Vocabulary(sent_tokenize(text)) # {} => ReturnsTopN
        /\ ~SCIPY_AVAILABLE => call.res = Selected(text, 1..call.n)
        /\ SCIPY_AVAILABLE /\ Vocabulary(sent_tokenize(text)) = {} =>
               call.res = Prefix(text, TRUNCATE_CHARS)
                          \o (IF Len(text) > TRUNCATE_CHARS THEN <<".", ".", ".">> ELSE <<>>)

\* a call that has to leave out a sentence scoring above the lowest it keeps
C5_Witness ==
    /\ call.op = "extractive_summary"
    /\ SCIPY_AVAILABLE
    /\ call.n = MaxN
    /\ Len(sent_tokenize(text)) > SUMMARY_SENTENCES
    /\ 1 \notin call.top.idx
    /\ call.res = Selected(text, call.top.idx)
    /\ \E i \in call.top.idx, j \in 1..Len(sent_tokenize(text)) :
           LET sc == Scores(sent_tokenize(text), call.top.w)
           IN  j \notin call.top.idx /\ ~ScoreLE(sc[i], sc[j])

RemoteFailed(out, limit) == ApiFailed(out) \/ Len(strip(out)) < limit

SummaryIs(limit) ==
    call.op = "smart_summarize" =>
        IF RemoteFailed(call.out, limit)
        THEN call.res = extractive_summary(text, SUMMARY_SENTENCES, call.top)
        ELSE call.res = strip(call.out)

\* C6 as stated: smart_summarize returns the extractive fallback of 6
\* sentences when the generation call throws, returns nothing or returns
\* fewer than 10 characters after stripping, and the stripped response in
\* every other case.
C6_FallbackBelowTen == SummaryIs(MIN_SUMMARY_LEN)

\* C6, amended: the fallback is returned when the generation call throws,
\* returns nothing or returns at most 10 characters after stripping (fewer
\* than 11), and the stripped response in every other case.
C6_FallbackUpToTen == SummaryIs(MIN_SUMMARY_LEN + 1)

\* a response of exactly 10 characters is discarded for the fallback
C6_Witness ==
    /\ call.op = "smart_summarize"
    /\ call.out # NONE /\ call.out # RAISE
    /\ Len(strip(call.out)) = MIN_SUMMARY_LEN
    /\ HasSentence(text)
    /\ call.res # strip(call.out)

\* C2 as stated: whenever the request fails (no connection, timeout, a status
\* that is not 2xx) or the parse fails, fetch_url_text returns a string that
\* begins with "ERROR", the prefix app.py tests.
C2_ErrorSentinelOnNon2xx ==
    call.op \in {"fetch_url_text", "components.fetch_url_text"} =>
        LET http == call.out.http
        IN  (\/ http.kind # "response"
             \/ http.status \notin 200..299
             \/ ~http.page.parses) => StartsWith(call.res, ERROR_PREFIX)

\* C2, amended: whenever the request fails (no connection, timeout, a 4xx or
\* 5xx status) or the parse fails, fetch_url_text returns a string that
\* begins with "ERROR"; a response with any other status is read as a page.
C2_ErrorSentinelOnFailure ==
    call.op \in {"fetch_url_text", "components.fetch_url_text"} =>
        LET http == call.out.http
        IN  (\/ http.kind # "response"
             \/ http.status \in 400..599
             \/ ~http.page.parses) => StartsWith(call.res, ERROR_PREFIX)

C2_Witness ==
    /\ call.op = "fetch_url_text"
    /\ call.out.http.kind = "response"
    /\ call.out.http.status = 503
    /\ StartsWith(call.res, ERROR_PREFIX)

\* ------------------------------------------------------ claims of the session
\* the transcript alternates user, assistant, and starts with user
Alternates(history) ==
    /\ Len(history) % 2 = 0
    /\ \A k \in DOMAIN history :
           history[k].role = (IF k % 2 = 1 THEN "user" ELSE "assistant")

\* a step that is a Send with a non-blank prompt
SendsPrompt == run'.trigger = "send" /\ strip(run'.prompt) # <<>>

\* C7: every Send with a non-blank prompt appends exactly two entries to the
\* transcript, the user entry with the prompt first and the assistant entry
\* second, whatever the generation call does; and at every point the
\* transcript has even length and alternates user, assistant from user.
C7_SendAppendsPair ==
    /\ [](Alternates(session_state.history))
    /\ [][SendsPrompt =>
            LET before == session_state.history
                after == session_state'.history
            IN  /\ Len(after) = Len(before) + 2
                /\ SubSeq(after, 1, Len(before)) = before
                /\ after[Len(before) + 1] = Entry("user", run'.prompt)
                /\ after[Len(before) + 2].role = "assistant"]_vars

\* two turns, the first answered by the fallback because the generation
\* returned nothing, the second by the model
C7_Witness ==
    /\ run.trigger = "send"
    /\ Len(session_state.history) = 2 * MaxTurns
    /\ session_state.history[2] = Entry("assistant", CHAT_FALLBACK)
    /\ session_state.history[1] = Entry("user", <<"o", "x", "?">>)
    /\ session_state.history[Len(session_state.history)].txt # CHAT_FALLBACK

\* C8: the transcript is append-only: over every step of the session
\* (launch, settings, fetch, follow-up buttons, send, reruns) the transcript
\* before the step is a prefix of the transcript after it.
C8_AppendOnly ==
    [][LET before == session_state.history
           after == session_state'.history
       IN  /\ Len(before) <= Len(after)
           /\ SubSeq(after, 1, Len(before)) = before]_vars

\* a follow-up button is pressed after a fetch that came after two turns, and
\* the transcript is still there
C8_Witness ==
    /\ run.trigger \in {"flashcards", "todos", "export", "narrate"}
    /\ Len(session_state.history) = 2 * MaxTurns
    /\ Alternates(session_state.history)

\* C9 as stated: after every completed summarization and every completed
\* chat turn the mood stored in the session (st.session_state.emotion)
\* equals the mood analyze_emotion computed in that run.
C9_StoredMoodIsComputed ==
    run.trigger \in {"fetch", "send"} /\ run.moods # <<>> =>
        session_state.emotion = run.moods[Len(run.moods)]

\* the labels of the specification
MoodLabels == {"idle", "listening", "happy", "thinking", "excited", "concerned", "battle"}

\* C10: in every state the mood stored in the session, every mood handed to
\* render_avatar or setAvatar and every mood analyze_emotion returned is one
\* of idle, listening, happy, thinking, excited, concerned, battle.
C10_MoodInEnumeration ==
    /\ "emotion" \in session_state.keys => session_state.emotion \in MoodLabels
    /\ \A k \in DOMAIN run.avatar : run.avatar[k].state \in MoodLabels
    /\ \A k \in DOMAIN run.moods : run.moods[k] \in MoodLabels

\* a chat turn whose reply is judged negative and is spoken: concerned is
\* handed to setAvatar with and without lipsync
C10_Witness ==
    /\ run.trigger = "send"
    /\ run.moods = <<"concerned">>
    /\ \E k \in DOMAIN run.avatar :
           run.avatar[k] = Avatar("setAvatar", "concerned", TRUE, 0)
    /\ "emotion" \in session_state.keys

\* ---------------------------------------------------------------- C11
\* a change of the avatar from element a to the next element b that the
\* stated machine allows: request submitted, sentiment of the response,
\* or the narration timer
MoodStep(a, b) ==
    \/ b.state = a.state
    \/ a.state \in {"idle", "listening"} /\ b.state = "thinking"
    \/ a.state = "thinking" /\ b.state \in {"happy", "concerned", "listening"}
    \/ b.state = "listening" /\ b.via = "setAvatar" /\ b.after > 0 /\ a.lipsync

\* C11: every change of the avatar mood within a script run is a step of
\* the machine idle/listening -> thinking -> happy/concerned/listening
\* -> listening (by the narration timer); no other change occurs.
C11_MoodMachine ==
    \A k \in 1..(Len(run.avatar) - 1) : MoodStep(run.avatar[k], run.avatar[k + 1])

\* ---------------------------------------------------------------- C12
\* the first line of an answer, stripped and in lower case
FirstLine(out) ==
    LET t == lower(strip(out))
        i == find(t, NL)
    IN  IF i = -1 THEN t ELSE Prefix(t, i)

\* the one-word judgment: neutral when the call failed or the first line
\* names neither positive nor negative
Judgment(out) ==
    IF out = RAISE \/ out = NONE \/ out = <<>> THEN "neutral"
    ELSE IF Contains(FirstLine(out), <<"p", "o", "s", "i", "t", "i", "v", "e">>)
    THEN "positive"
    ELSE IF Contains(FirstLine(out), <<"n", "e", "g", "a", "t", "i", "v", "e">>)
    THEN "negative"
    ELSE "neutral"

\* C12: analyze_emotion is a function of the one-word judgment: positive
\* gives happy, negative gives concerned, neutral gives listening; a failed
\* sentiment call or an unrecognised answer is judged neutral.
C12_MoodFollowsJudgment ==
    call.op = "analyze_emotion" =>
        /\ Judgment(call.out) = "positive" => call.res = "happy"
        /\ Judgment(call.out) = "negative" => call.res = "concerned"
        /\ Judgment(call.out) = "neutral" => call.res = "listening"

\* an answer whose first line is unrecognised and whose second line says
\* negative: the mood is listening
C12_Witness ==
    /\ call.op = "analyze_emotion"
    /\ call.out = R.two_lines
    /\ call.res = "listening"

\* ---------------------------------------------------------------- C13
\* two requests of one function application went to the same service
SecondAttempt ==
    \E i, j \in DOMAIN call.remote :
        i < j /\ call.remote[i].service = call.remote[j].service

\* C13 as stated: within one application no external service is contacted
\* twice.
C13_NoSecondAttempt == ~SecondAttempt

\* C13: a service is contacted at most once per application, with two
\* exceptions: the genai client sends generate_text after generate_content
\* raised, and openai_summarize sends Completion.create after
\* ChatCompletion.create raised; no application sends more than two
\* requests, and none repeats the request that failed.
C13_OneLegacyAttempt ==
    /\ Len(call.remote) <= 2
    /\ SecondAttempt =>
        /\ call.remote[1].api # call.remote[2].api
        /\ \/ /\ call.op = "_gemini_generate_text"
              /\ GEN_CLIENT = "genai"
              /\ call.out.primary.kind = "raise"
              /\ call.remote[2].api = "generate_text"
           \/ /\ call.op = "openai_summarize"
              /\ call.out.chat.kind = "raise"
              /\ call.remote[2].api = "Completion.create"
    /\ call.op = "_gemini_generate_text" /\ GEN_CLIENT = "vertexai"
        => Len(call.remote) = 1

\* generate_content raised and the legacy generate_text answered
C13_Witness ==
    /\ call.op = "_gemini_generate_text"
    /\ SecondAttempt
    /\ call.out.legacy.kind = "text"
    /\ call.res = strip(R.summary)

\* ---------------------------------------------------------------- C14
\* the application called the named engine
Attempted(api) == \E k \in DOMAIN call.remote : call.remote[k].api = api

\* the cloud library is imported and the credentials are set
CloudReady == call.out.gcp_audio /\ call.out.credentials

\* C14: tts_create_audio_bytes never raises; the cloud client is attempted
\* only with the cloud library and credentials present, and first; the
\* local engine only when the cloud client was not attempted or raised;
\* None is returned only when neither produced audio.
C14_TtsPreference ==
    call.op = "tts_create_audio_bytes" =>
        /\ call.res # RAISE
        /\ Attempted("synthesize_speech") => CloudReady /\ call.remote[1].service = "gcp"
        /\ Attempted("save_to_file") =>
               ~Attempted("synthesize_speech") \/ call.out.cloud = "raise"
        /\ call.res = NONE =>
               /\ Attempted("synthesize_speech") => call.out.cloud = "raise"
               /\ Attempted("save_to_file") /\ call.out.local = "raise"
        /\ call.res # NONE => Len(call.res) = 0 \/ call.res[1] = "mp3"

\* the cloud client raised and the local engine produced the audio
C14_Witness ==
    /\ call.op = "tts_create_audio_bytes"
    /\ Attempted("synthesize_speech")
    /\ Attempted("save_to_file")
    /\ call.res = <<"mp3", "local">>

\* ---------------------------------------------------------------- C15
\* C15: stt_from_uploaded_bytes never raises and returns a transcript or a
\* string that begins with ERROR_STT; the cloud recogniser is attempted
\* only with credentials present, the local one only when the cloud one was
\* not attempted or raised, and the error string is returned only when no
\* recogniser that was attempted gave a transcript.
C15_SttPreference ==
    call.op = "stt_from_uploaded_bytes" =>
        LET failed == StartsWith(call.res, <<"E", "R", "R", "O", "R", "_", "S", "T", "T">>)
        IN  /\ call.res # RAISE /\ call.res # NONE
            /\ Attempted("recognize") => CloudReady /\ call.remote[1].service = "gcp"
            /\ Attempted("recognize_google") =>
                   ~Attempted("recognize") \/ call.out.cloud = "raise"
            /\ failed =>
                   /\ Attempted("recognize") => call.out.cloud = "raise"
                   /\ Attempted("recognize_google") /\ call.out.local = "raise"
            /\ ~failed => call.res \in {<<"o", "x">>, <<"a", "x">>, <<>>}

\* both recognisers were attempted and both raised
C15_Witness ==
    /\ call.op = "stt_from_uploaded_bytes"
    /\ Attempted("recognize")
    /\ Attempted("recognize_google")
    /\ call.res = <<"E", "R", "R", "O", "R", "_", "S", "T", "T", ":", "e">>

\* ---------------------------------------------------------------- C16
\* C16: a deck that export_to_pptx built holds three slides, titled as
\* given, "Key points" and "Action items"; the Key points body holds
\* exactly the N bullets as its paragraphs and the Action items body
\* exactly the M actions, in input order.
C16_ThreeSlidesCountsMatch ==
    call.op = "export_to_pptx" /\ call.res # NONE =>
        LET deck == call.res[3]
        IN  /\ Len(deck) = 3
            /\ deck[1].title = "PageBuddy Export"
            /\ deck[2] = [title |-> "Key points", body |-> call.out.bullets]
            /\ deck[3] = [title |-> "Action items", body |-> call.out.actions]

\* ---------------------------------------------------------------- C17
\* C17: export_to_pptx never raises; it returns None exactly when the
\* presentation library is unavailable or a step of the building fails, and
\* otherwise a stream positioned at offset 0; a download is offered only
\* for a result that is not None.
C17_NoneOrRewoundStream ==
    call.op = "export_to_pptx" =>
        /\ call.res # RAISE
        /\ call.res = NONE <=> ~call.out.env.pptx_available \/ call.out.env.fails
        /\ call.res # NONE => call.res[2] = 0 /\ Len(call.res[3]) = 3
        /\ OffersDownload(call.res) => call.res # NONE

\* the library is there and a step of the building raises: None, no download
C17_Witness ==
    /\ call.op = "export_to_pptx"
    /\ call.out.env.pptx_available
    /\ call.out.env.fails
    /\ call.res = NONE
    /\ ~OffersDownload(call.res)

\* ---------------------------------------------------------------- C18
\* the text the document shows
Fetched == call.op \in {"fetch_url_text", "components.fetch_url_text"} /\
           ~FetchRaises(call.out.http)

\* C18: the text fetch_url_text returns on success never exceeds the
\* character budget plus the three characters of the ellipsis, and ends
\* with the ellipsis when the page text exceeded the budget.
C18_HardTruncated ==
    Fetched =>
        /\ Len(call.res) <= FETCH_BUDGET + 3
        /\ call.out.http = LONG_RESPONSE =>
               /\ Len(call.res) = FETCH_BUDGET + 3
               /\ SubSeq(call.res, 1, FETCH_BUDGET) =
                      SubSeq(LONG_RESPONSE.page.nodes[1].txt, 1, FETCH_BUDGET)
               /\ SubSeq(call.res, FETCH_BUDGET + 1, Len(call.res)) = <<".", ".", ".">>

\* ---------------------------------------------------------------- C19
\* the stripped text of the first element with the tag
RegionText(tag) ==
    LET region == CHOOSE nd \in Range(call.out.http.page.nodes) : nd.tag = tag
    IN  strip(region.txt)

HasRegion(tag) == \E nd \in Range(call.out.http.page.nodes) : nd.tag = tag

\* C19: when the document has a <main> region, fetch_url_text returns its
\* text only; otherwise, when it has an <article>, the text of that only.
C19_MainThenArticle ==
    Fetched =>
        /\ HasRegion("main") => Len(call.res) <= Len(RegionText("main"))
        /\ ~HasRegion("main") /\ HasRegion("article") =>
               Len(call.res) <= Len(RegionText("article"))

\* ---------------------------------------------------------------- C20
\* C20: whatever the text, the requested count and the output of the model,
\* generate_flashcards returns exactly count elements, each a pair with a
\* question q and an answer a.
C20_ExactlyCountCards ==
    call.op = "generate_flashcards" =>
        /\ Len(call.res) = call.n
        /\ \A k \in DOMAIN call.res : IsCard(call.res[k])

\* ---------------------------------------------------------------- C21
\* the output of the model yields no JSON list: it holds no '[', or the
\* blob from the first '[' to the last ']' does not parse
NoJsonList(out) ==
    \/ find(out, "[") = -1
    \/ json_loads(Slice(out, find(out, "["), rfind(out, "]") + 1)).t = "raise"

\* the cards of the lines labelled Q and A
LabelledCards(out) == QALoop(StrippedLines(splitlines(out)), <<>>, <<>>, <<>>)

\* C21: when the output of the model yields no JSON list and holds lines
\* labelled Q and A, generate_flashcards returns the cards of those lines,
\* at most count of them and in order, whether the output holds no '[' or
\* holds a blob that does not parse.
C21_LabelledLinesParsed ==
    /\ call.op = "generate_flashcards"
    /\ call.out # RAISE /\ Truthy(call.out)
    /\ NoJsonList(call.out)
    /\ LabelledCards(call.out) # <<>>
    => call.res = Prefix(LabelledCards(call.out), call.n)

\* ---------------------------------------------------------------- C22
\* the run issued a URL fetch
FetchIssued == \E k \in DOMAIN run.calls : run.calls[k] = "fetch_url_text"

\* a session into which the extension pushed content
WithExtension ==
    [EmptySession EXCEPT !.keys = {"show_app", "chrome_content"}, !.show_app = TRUE,
                         !.chrome_content = <<"i", "t", ".">>]

\* C22 as stated: on Fetch & Summarize, whenever pasted text is supplied
\* and there is no extension content, the content is the pasted text as it
\* is and no URL fetch is issued.
C22_PastedUsedAsIs ==
    run.trigger = "fetch" /\ run.raw_text # <<>> =>
        run.content = run.raw_text /\ ~FetchIssued

\* C22: the content comes from the extension when it pushed some; else
\* from the pasted text when that holds more than 50 characters once
\* stripped, and then it is the stripped text and no URL fetch is issued;
\* else from the URL when there is one; else there is none.
C22_SourcePriority ==
    /\ \A in \in FetchInputs :
           /\ ContentSource(WithExtension, in.raw_text, in.url) = "extension"
           /\ SelectContent(WithExtension, "extension", in.raw_text, in.url, NoHttp)
                  = WithExtension.chrome_content
    /\ run.trigger = "fetch" =>
           IF Len(strip(run.raw_text)) > PASTE_MIN
           THEN run.source = "pasted" /\ run.content = strip(run.raw_text) /\ ~FetchIssued
           ELSE IF run.url # <<>>
           THEN run.source = "url" /\ FetchIssued
           ELSE run.source = "none" /\ run.content = <<>> /\ ~FetchIssued

\* a long pasted text with blanks around it and a URL-less box: the
\* stripped text is summarized
C22_Witness ==
    /\ run.trigger = "fetch"
    /\ run.source = "pasted"
    /\ run.raw_text # run.content
    /\ run.content = PASTE_LONG
    /\ run.summary # NONE
    /\ ~FetchIssued

\* ---------------------------------------------------------------- C23
\* the acquired content is empty or begins with "ERROR"
Unusable(content) == content = <<>> \/ StartsWith(content, <<"E", "R", "R", "O", "R">>)

GenerationCalls == {"smart_summarize", "generate_action_items", "analyze_emotion"}

\* C23: when the acquired content is empty or begins with "ERROR", the
\* Fetch & Summarize run makes none of the calls smart_summarize,
\* generate_action_items and analyze_emotion, shows no summary, and leaves
\* the transcript and the mood label as they were; afterwards the session
\* still takes a Fetch & Summarize, a Send and a change of settings.
C23_StopsBeforeGeneration ==
    /\ [][run'.trigger = "fetch" /\ Unusable(run'.content) =>
              /\ \A k \in DOMAIN run'.calls : run'.calls[k] \notin GenerationCalls
              /\ run'.moods = <<>> /\ run'.summary = NONE /\ run'.actions = NONE
              /\ session_state'.history = InitMainApp(session_state).history
              /\ session_state'.emotion = InitMainApp(session_state).emotion]_vars
    /\ [](run.trigger = "fetch" /\ Unusable(run.content) =>
              /\ InApp
              /\ ENABLED FetchAndSummarize
              /\ ENABLED ChangeSettings
              /\ (Len(session_state.history) < 2 * MaxTurns => ENABLED Send))

\* a fetch that failed after a chat turn: the turn is still in the
\* transcript and only the URL fetch was called
C23_Witness ==
    /\ run.trigger = "fetch"
    /\ run.stopped
    /\ StartsWith(run.content, <<"E", "R", "R", "O", "R">>)
    /\ run.calls = <<"fetch_url_text">>
    /\ Len(session_state.history) = 2

\* ---------------------------------------------------------------- C24
\* fractions <<numerator, denominator>> with positive denominators
FracLeq(a, b) == a[1] * b[2] <= b[1] * a[2]
FracEq(a, b) == a[1] * b[2] = b[1] * a[2]

Estimates == {"estimate_audio_duration_seconds", "estimate_audio_duration_seconds (fallback)"}

\* the estimate the called function gives for a text of m characters
EstimateOf(op, m) ==
    IF op = "estimate_audio_duration_seconds"
    THEN estimate_audio_duration_seconds([k \in 1..m |-> "a"])
    ELSE estimate_audio_duration_seconds_fallback([k \in 1..m |-> "a"])

\* C24: the estimate is the character count divided by one fixed constant
\* between 14 and 18, floored at one second: it is never below 1, it is
\* exactly 1 for every text of at most that many characters, the empty
\* text included, and it does not decrease as the text grows.
C24_DurationEstimate ==
    call.op \in Estimates =>
        LET c == EstimateOf(call.op, 0)[2]
            secs == call.res
        IN  /\ c \in 14..18
            /\ Len(call.out) = call.n
            /\ IF call.n <= c THEN FracEq(secs, <<1, 1>>) ELSE FracEq(secs, <<call.n, c>>)
            /\ FracLeq(<<1, 1>>, secs)
            /\ FracEq(EstimateOf(call.op, 0), <<1, 1>>)
            /\ \A m \in 0..call.n : FracLeq(EstimateOf(call.op, m), secs)

\* a text of exactly one second's worth of characters, and a longer one
C24_Witness ==
    /\ call.op = "estimate_audio_duration_seconds"
    /\ call.n = 2 * CHARS_PER_SECOND
    /\ FracEq(call.res, <<2, 1>>)
    /\ FracEq(EstimateOf(call.op, CHARS_PER_SECOND), <<1, 1>>)

\* ---------------------------------------------------------------- C25
\* the operation behind each button the fetch handler puts under a summary
ButtonOperation(button) ==
    CASE button = "export" -> "export_to_pptx"
      [] button = "narrate" -> "tts_create_audio_bytes"
      [] button = "flashcards" -> "generate_flashcards"
      [] button = "todos" -> "generate_todos"

\* C25: in the script run that a click on a follow-up button of a displayed
\* summary triggers, the operation of that button is invoked.
C25_FollowUpInvokesOperation ==
    run.trigger \in {"export", "narrate", "flashcards", "todos"} =>
        \E k \in DOMAIN run.calls : run.calls[k] = ButtonOperation(run.trigger)

\* ---------------------------------------------------------------- C26
\* what only the main app does in a script run: it sets the keys of the
\* session, draws the avatar, and handles the fetch, the chat and the sidebar
MainAppRan ==
    \/ run'.avatar # <<>>
    \/ run'.calls # <<>>
    \/ run'.trigger \notin {"load", "launch"}
    \/ session_state'.keys \ {"show_app"} # session_state.keys \ {"show_app"}

\* C26: show_app starts false; the main app runs only in script runs where
\* show_app is true; show_app becomes true only in a launch (the Launch
\* NOVA button, or a load of the address that carries __launch=1); once
\* true it is never false again.
C26_LandingGateMonotone ==
    /\ ~session_state.show_app
    /\ [][/\ MainAppRan => session_state'.show_app
          /\ session_state.show_app => session_state'.show_app
          /\ ~session_state.show_app /\ session_state'.show_app =>
                 \/ run'.trigger = "launch" /\ Launch
                 \/ run'.trigger = "load" /\ Load]_vars

\* the main app, two chat turns and a change of settings after the launch
C26_Witness ==
    /\ session_state.show_app
    /\ run.trigger = "settings"
    /\ Len(session_state.history) = 2 * MaxTurns

\* ---------------------------------------------------------------- C27
\* the prompt is empty or holds white space only
BlankPrompt(prompt) == \A k \in DOMAIN prompt : prompt[k] \in {SP, NL}

\* C27: a Send whose prompt is empty or holds white space only leaves the
\* transcript, the mood label and the preference memory as they were, and
\* calls neither the generation, nor the sentiment analysis, nor the text
\* to speech.
C27_BlankSendChangesNothing ==
    [][run'.trigger = "send" /\ BlankPrompt(run'.prompt) =>
           /\ session_state'.history = session_state.history
           /\ session_state'.emotion = session_state.emotion
           /\ session_state'.memory = session_state.memory
           /\ run'.calls = <<>>
           /\ run'.moods = <<>>
           /\ run'.audio = NONE]_vars

\* a blank prompt sent after a chat turn, with the memory switched on
C27_Witness ==
    /\ run.trigger = "send"
    /\ run.prompt = <<SP>>
    /\ run.calls = <<>>
    /\ settings.memory_mode
    /\ Len(session_state.history) = 2

\* ---------------------------------------------------------------- C28
NoText == {NONE, RAISE, <<>>}

\* C28: every entry of the transcript has a non-empty text; the text of a
\* user entry is not blank; and whatever the generation call does, the
\* reply that goes to the transcript is not empty: the fixed fallback when
\* the call returned nothing or an empty string, an error message when it
\* raised.
C28_TranscriptNonEmpty ==
    /\ \A k \in DOMAIN session_state.history :
           LET e == session_state.history[k]
           IN  /\ e.txt \notin NoText
               /\ Len(e.txt) > 0
               /\ e.role = "user" => ~BlankPrompt(e.txt)
    /\ \A client \in Clients :
           \A out \in GenOutcomes(client) :
               /\ ChatReply(out) \notin NoText
               /\ out \in {NONE, <<>>} => ChatReply(out) = CHAT_FALLBACK
               /\ out = RAISE => StartsWith(ChatReply(out), <<"E", "R", "R", "O", "R">>)

\* a full transcript whose first reply is the fallback
C28_Witness ==
    /\ Len(session_state.history) = 2 * MaxTurns
    /\ session_state.history[2] = Entry("assistant", CHAT_FALLBACK)
    /\ session_state.history[1].role = "user"
====
